---------------------------- MODULE Spec2Model ----------------------------
(***************************************************************************)
(* Model of the FlatGeobuf layer (ogrflatgeobuflayer.cpp) and of the       *)
(* OGRSimpleCurve point-array geometry (ogrlinestring.cpp).                *)
(*                                                                         *)
(* Files are sequences of cells.  One cell stands for one group of bytes   *)
(* of the real file (the magic bytes, one table entry of the header, the   *)
(* 4-byte size prefix of a record, one part of a record body); lengths and *)
(* offsets are counted in cells.                                           *)
(***************************************************************************)
EXTENDS Integers, Sequences, FiniteSets, TLC

(***************************************************************************)
(* Bounds of the model.                                                    *)
(***************************************************************************)
MaxFeatures == 2        \* createFeature calls per writer
MaxFaults   == 1        \* failing file calls per writer
MaxFields   == 1        \* CreateField calls per writer
MaxCloses   == 2        \* Close calls per writer
MaxCoord    == 1        \* feature coordinates range over 0..MaxCoord

VARIABLES
    layer,      \* the writer layer object (OGRFlatGeobufLayer, m_create = true)
    fs,         \* the files the writer touches and its two file handles
    wlast,      \* the last writer operation: its inputs, result and pre-state
    rd,         \* the reader layer object (OGRFlatGeobufLayer, m_create = false)
    rlast,      \* the last reader operation and what it returned
    iter,       \* the features returned since reading was last reset
    dec,        \* a layer decoding the property stream of one record
    curve,      \* a curve object (OGRSimpleCurve)
    clast,      \* the last curve operation: its inputs and results
    geo,        \* a curve given to the measures and the last call on it
    pair,       \* two curve objects and the blocks their arrays live in
    batch       \* a reader that delivers the records of a file in batches

wvars == <<layer, fs, wlast>>
rvars == <<rd, rlast, iter>>
dvars == <<dec>>
cvars == <<curve, clast>>
gvars == <<geo>>
pvars == <<pair>>
bvars == <<batch>>
vars == <<wvars, rvars, dvars, cvars, gvars, pvars, bvars>>

\* Each specification below runs one part of the program; the variables of
\* the other parts stay at Idle.
Idle == [idle |-> TRUE]

(***************************************************************************)
(* Small helpers.                                                          *)
(***************************************************************************)
Min(a, b) == IF a <= b THEN a ELSE b
Max(a, b) == IF a >= b THEN a ELSE b

(***************************************************************************)
(* Envelopes (OGREnvelope).  init = FALSE is the un-initialised envelope.  *)
(***************************************************************************)
NoEnvelope == [init |-> FALSE, MinX |-> 0, MinY |-> 0, MaxX |-> 0, MaxY |-> 0]

Env(x1, y1, x2, y2) ==
    [init |-> TRUE, MinX |-> x1, MinY |-> y1, MaxX |-> x2, MaxY |-> y2]

\* OGREnvelope::Merge as used at ICreateFeature line 2343
EnvMerge(a, b) ==
    IF ~b.init THEN a
    ELSE IF ~a.init THEN b
    ELSE Env(Min(a.MinX, b.MinX), Min(a.MinY, b.MinY),
             Max(a.MaxX, b.MaxX), Max(a.MaxY, b.MaxY))

(***************************************************************************)
(* Features handed to ICreateFeature.                                      *)
(*   geom : "none" (null geometry), "empty", "point", "line"               *)
(*   str  : "unset", "ok" (valid UTF-8), "bad" (not valid UTF-8); the      *)
(*          value of the string field, read only when the layer has one    *)
(***************************************************************************)
Coords == 0 .. MaxCoord

Geometries ==
    { [kind |-> "none", env |-> NoEnvelope], [kind |-> "empty", env |-> NoEnvelope] }
    \cup { [kind |-> "point", env |-> Env(x, x, x, x)] : x \in Coords }
    \cup { [kind |-> "line", env |-> Env(0, 0, MaxCoord, MaxCoord)] }

Features == { [geom |-> g, str |-> s] : g \in Geometries, s \in {"unset", "ok", "bad"} }

GeomIsNull(g)  == g.kind = "none"

(***************************************************************************)
(* Constants of the source.                                                *)
(***************************************************************************)
\* dummyFeatureCount is 0xDEADBEEF, beyond the integers of the model checker:
\* the model keeps what matters of it, a non-zero count no layer reaches.
DummyFeatureCount == 2147483647
MaxColumns == 65535                 \* std::numeric_limits<uint16_t>::max()
DefaultNodeSize == 16               \* node size of the index built at Close

(***************************************************************************)
(* File cells.                                                             *)
(***************************************************************************)
\* magicbytes, written by writeHeader line 389
MagicCells == << [t |-> "M", k |-> 1] >>

\* One header as CreateHeaderDirect lays it out (line 518): a size prefix, the
\* fixed part, one entry per column, and one entry per optional field that is
\* present: a scalar equal to its schema default (features_count 0,
\* index_node_size 16) and a null vector (envelope, metadata) take no room.
HeaderLen(h) ==
    2 + h.nFields
      + (IF h.count # 0 THEN 1 ELSE 0)
      + (IF h.hasExt THEN 1 ELSE 0)
      + (IF h.ins # DefaultNodeSize THEN 1 ELSE 0)
      + (IF h.meta # 0 THEN 1 ELSE 0)

\* The header found in a file (GetHeader): the cell after the magic bytes
\* carries it.
HasHeader(content) ==
    Len(content) > Len(MagicCells) /\ content[Len(MagicCells) + 1].t = "H"

HeaderOf(content) == content[Len(MagicCells) + 1].h

\* The serialized record of a feature, fbb.FinishSizePrefixed at line 2336:
\* the size prefix and the body.
BodyLen(feat) ==
    1 + (IF feat.geom.kind \in {"point", "line"} THEN 1 ELSE 0)
      + (IF feat.str = "ok" THEN 1 ELSE 0)

RecordCells(feat) ==
    << [t |-> "S", n |-> BodyLen(feat)] >>
    \o [i \in 1 .. BodyLen(feat) |-> [t |-> "F", feat |-> feat, k |-> i]]

WriteAt(content, pos, cells) ==
    [i \in 1 .. Max(Len(content), pos + Len(cells)) |->
        IF i > pos /\ i <= pos + Len(cells) THEN cells[i - pos]
        ELSE IF i <= Len(content) THEN content[i]
        ELSE ([t |-> "0"])]

(***************************************************************************)
(* The writer (OGRFlatGeobufLayer created by Create).                      *)
(*                                                                         *)
(* layer fields, named as the members they model:                          *)
(*   m_create, m_featuresCount, m_writeOffset, m_offsetAfterHeader,        *)
(*   m_maxFeatureSize, m_sExtent, m_featureItems, m_indexNodeSize,         *)
(*   m_poFpWrite / m_poFp (TRUE = open handle), m_osTempFile (TRUE = set), *)
(*   idx      = m_bCreateSpatialIndexAtClose                               *)
(*   seekable = SupportsSeekWhileWriting(m_osFilename)                     *)
(*   gtype    = the layer geometry type ("Unknown" or "Point")             *)
(*   nFields  = m_poFeatureDefn->GetFieldCount()                           *)
(*   meta     = number of metadata items other than TITLE and DESCRIPTION  *)
(* fs fields: dest and temp are the contents of the destination and of the *)
(* temporary file, wpos and fpos the positions of m_poFpWrite and m_poFp,  *)
(* staging what the path of the temporary file names: "none" for no file,  *)
(* "own" for the file this writer created, "other" for a file that is not  *)
(* this writer's.                                                          *)
(***************************************************************************)
Res(L, F, ret, calls) == [L |-> L, F |-> F, ret |-> ret, calls |-> calls]

\* VSIFWriteL(cells, fp): fp is "w" for m_poFpWrite, "f" for m_poFp.  A failed
\* write stores nothing and leaves the position where it was.
Put(L, F, fp, cells, ok) ==
    IF ~ok THEN F
    ELSE IF fp = "f"
        THEN [F EXCEPT !.dest = WriteAt(@, F.fpos, cells), !.fpos = @ + Len(cells)]
    ELSE IF L.idx
        THEN [F EXCEPT !.temp = WriteAt(@, F.wpos, cells), !.wpos = @ + Len(cells)]
    ELSE [F EXCEPT !.dest = WriteAt(@, F.wpos, cells), !.wpos = @ + Len(cells)]

\* writeHeader: the results of the two writes are only logged; m_writeOffset
\* advances by sizeof(magicbytes) whatever happened and by the count the
\* header write returned.
writeHeader(L, F, fp, featuresCount, hasExt, ext, ok) ==
    LET cells == (LET h_HeaderCells == ([count |-> featuresCount, hasExt |-> hasExt, ext |-> ext,
            nFields |-> L.nFields, meta |-> L.meta, ins |-> L.m_indexNodeSize])
            IN [i \in 1 .. HeaderLen(h_HeaderCells) |-> [t |-> "H", h |-> h_HeaderCells, k |-> i]])
        F1 == Put(L, F, fp, MagicCells, ok)
        F2 == Put(L, F1, fp, cells, ok)
    IN [L |-> [L EXCEPT !.m_writeOffset =
                            @ + Len(MagicCells) + (IF ok THEN Len(cells) ELSE 0)],
        F |-> F2]

\* lines 2348-2372: the header written before the first record
FirstHeader(L, F, ok) ==
    IF L.m_featuresCount # 0 THEN [L |-> L, F |-> F]
    ELSE IF ~L.seekable THEN writeHeader(L, F, "w", 0, FALSE, NoEnvelope, ok)
    ELSE (LET r_KeepOffsetAfterHeader == writeHeader(L, F, "w", DummyFeatureCount, TRUE, NoEnvelope, ok)
            IN [L |-> [r_KeepOffsetAfterHeader.L EXCEPT !.m_offsetAfterHeader = r_KeepOffsetAfterHeader.L.m_writeOffset], F |-> r_KeepOffsetAfterHeader.F])

\* lines 2374-2393: the record is written, then indexed and counted
WriteRecord(L, F, rec, feat, ok, calls) ==
    IF ~ok
    THEN Res([L EXCEPT !.m_maxFeatureSize = Max(@, Len(rec))], F,
             "OGRERR_FAILURE", calls)
    ELSE Res([L EXCEPT
                 !.m_maxFeatureSize = Max(@, Len(rec)),
                 !.m_featureItems =
                     IF L.idx THEN Append(@, ([size |-> Len(rec), offset |-> L.m_writeOffset,
                             box |-> feat.geom.env, newOffset |-> 0])) ELSE @,
                 !.m_writeOffset = @ + Len(rec),
                 !.m_featuresCount = @ + 1],
             Put(L, F, "w", rec, TRUE), "OGRERR_NONE", calls)

\* lines 2338-2393, on a feature that passed the checks
StoreFeature(L, F, feat, io) ==
    IF L.m_featuresCount = 0 /\ ~L.m_poFpWrite THEN Res(L, F, "OGRERR_FAILURE", 0)
    ELSE (LET h_WriteFirstAndRecord == FirstHeader(L, F, io.hdr) IN WriteRecord(h_WriteFirstAndRecord.L,
            h_WriteFirstAndRecord.F, ((RecordCells([feat EXCEPT !.str = IF L.nFields > 0 THEN @
            ELSE "unset"]))), feat, io.feat, (IF L.m_featuresCount = 0 THEN 3 ELSE 1)))

\* ICreateFeature, io = [hdr, feat]: the outcomes of the header writes and of
\* the write of the record.
ICreateFeature(L, F, feat, io) ==
    IF ~L.m_create THEN Res(L, F, "OGRERR_FAILURE", 0)
    ELSE IF L.nFields > 0 /\ feat.str = "bad" THEN Res(L, F, "OGRERR_FAILURE", 0)
    ELSE IF L.idx /\ (GeomIsNull(feat.geom) \/ (feat.geom.kind = "empty"))
        THEN Res(L, F, "OGRERR_FAILURE", 0)
    ELSE IF ~GeomIsNull(feat.geom) /\ L.gtype # "Unknown" /\ (IF feat.geom.kind = "line" THEN "LineString"
            ELSE "Point") # L.gtype
        THEN Res(L, F, "OGRERR_FAILURE", 0)
    ELSE StoreFeature((IF GeomIsNull(feat.geom) THEN L ELSE [L EXCEPT !.m_sExtent = EnvMerge(@,
            feat.geom.env)]), F, feat, io)

CreateField(L, F) ==
    IF ~(L.m_create) THEN Res(L, F, "OGRERR_FAILURE", 0)
    ELSE IF L.nFields > MaxColumns THEN Res(L, F, "OGRERR_FAILURE", 0)
    ELSE Res([L EXCEPT !.nFields = @ + 1], F, "OGRERR_NONE", 0)

\* GDALMajorObject::SetMetadataItem with a key other than TITLE, DESCRIPTION
SetMetadataItem(L, F) == Res([L EXCEPT !.meta = @ + 1], F, "CE_None", 0)

(***************************************************************************)
(* Finalization (CreateFinalFile) and Close.                               *)
(***************************************************************************)
\* calcExtent: the union of the boxes of the items
RECURSIVE calcExtent(_)
calcExtent(items) ==
    IF items = <<>> THEN NoEnvelope
    ELSE EnvMerge(calcExtent(Tail(items)), Head(items).box)

\* hilbertSort: the items by decreasing position of the centre of their box
\* on a space-filling curve
HilbertKey(box) ==
    (box.MinX + box.MaxX) + (2 * MaxCoord + 1) * (box.MinY + box.MaxY)

RECURSIVE InsertItem(_, _)
InsertItem(sorted, item) ==
    IF sorted = <<>> THEN << item >>
    ELSE IF HilbertKey(item.box) > HilbertKey(Head(sorted).box)
        THEN << item >> \o sorted
    ELSE << Head(sorted) >> \o InsertItem(Tail(sorted), item)

RECURSIVE hilbertSort(_)
hilbertSort(items) ==
    IF items = <<>> THEN <<>>
    ELSE InsertItem(hilbertSort(SubSeq(items, 1, Len(items) - 1)), items[Len(items)])

\* lines 613-618: the offset of each record in the features section
RECURSIVE AssignOffsets(_, _)
AssignOffsets(items, featureOffset) ==
    IF items = <<>> THEN <<>>
    ELSE << [Head(items) EXCEPT !.newOffset = featureOffset] >>
         \o AssignOffsets(Tail(items), featureOffset + Head(items).size)

\* PackedRTree::streamWrite for at most DefaultNodeSize items: the root node,
\* then one leaf node per item in item order.
TreeCells(items, extent) ==
    << [t |-> "T", box |-> extent, off |-> 0] >>
    \o [i \in 1 .. Len(items) |->
            [t |-> "T", box |-> items[i].box, off |-> items[i].newOffset]]

RECURSIVE ReadBatch(_, _)
ReadBatch(F, items) ==
    IF items = <<>> THEN <<>>
    ELSE (LET item_ReadRecord == Head(items) IN SubSeq(F.temp, item_ReadRecord.offset + 1,
            item_ReadRecord.offset + item_ReadRecord.size)) \o ReadBatch(F, Tail(items))

\* A Close that would leave m_create set: the variant C1 is checked against.
AfterFinalFileKeepsCreate(L) == L

\* line 812
AfterFinalFile(L) == [L EXCEPT !.m_create = FALSE]

\* CreateFinalFile returning true after the file calls it made
Done(r, calls) == [L |-> r.L, F |-> r.F, ok |-> TRUE, calls |-> calls]

\* lines 540-572: without index the header is rewritten in place when the
\* destination supports seeking (the CPLAssert of line 567 is compiled out of
\* release builds)
FinalNoIndex(L, F, io) ==
    IF ~L.m_poFpWrite \/ ~L.seekable
    THEN [L |-> L, F |-> F, ok |-> TRUE, calls |-> 0]
    ELSE Done(writeHeader([L EXCEPT !.m_writeOffset = 0], [F EXCEPT !.wpos = 0],
                          "w", L.m_featuresCount, TRUE, L.m_sExtent, io.hdr), 3)

\* lines 651-779: the records are read from the temporary file in the order
\* of the sorted items and written after the tree
CopyFeatures(L, F, items, io) ==
    IF ~io.copy \/ ~(\A i \in 1 .. Len(items) : ((items[i]).offset + (items[i]).size <= Len(F.temp)))
    THEN [L |-> L, F |-> F, ok |-> FALSE, calls |-> 5]
    ELSE [L |-> [L EXCEPT !.m_writeOffset = @ + Len(ReadBatch(F, items))],
          F |-> Put(L, F, "f", ReadBatch(F, items), TRUE),
          ok |-> TRUE, calls |-> 5 + 2 * Len(items)]

\* lines 619-646: the tree is streamed after the header, the count of bytes
\* written is not checked
WriteTree(r, items, extent, io) ==
    CopyFeatures([r.L EXCEPT !.m_featureItems = items,
                             !.m_writeOffset =
                                 @ + (IF io.tree
                                      THEN Len(TreeCells(items, extent)) ELSE 0)],
                 Put(r.L, r.F, "f", TreeCells(items, extent), io.tree),
                 items, io)

\* lines 574-608, m_poFp just opened on the truncated destination
FinalIndexed(L, F, io) ==
    IF L.m_writeOffset = 0 \/ L.m_featuresCount = 0
    THEN Done(writeHeader(L, F, "f", 0, FALSE, NoEnvelope, io.hdr), 3)
    ELSE (LET L_FinalSorted == [L EXCEPT !.m_writeOffset = 0,
            !.m_indexNodeSize = DefaultNodeSize] extent_FinalSorted == calcExtent(L.m_featureItems)
            IN WriteTree(writeHeader(L_FinalSorted, F, "f", L_FinalSorted.m_featuresCount, TRUE,
            extent_FinalSorted, io.hdr), AssignOffsets(hilbertSort(L_FinalSorted.m_featureItems), 0),
            extent_FinalSorted, io))

\* CreateFinalFile, io = [open, hdr, tree, copy, close]: the outcomes of the
\* file calls.  The temporary file is on disk, so the records are copied with
\* the batch strategy, and the batch buffer holds the whole temporary file.
CreateFinalFile(L, F, io) ==
    IF ~L.idx THEN FinalNoIndex(L, F, io)
    ELSE IF ~io.open THEN [L |-> L, F |-> F, ok |-> FALSE, calls |-> 1]
    ELSE FinalIndexed([L EXCEPT !.m_poFp = TRUE],
                      [F EXCEPT !.dest = <<>>, !.fpos = 0], io)

\* lines 815-835: both handles are closed, the temporary file is unlinked
Handles(L) ==
    (IF L.m_poFp THEN 1 ELSE 0) + (IF L.m_poFpWrite THEN 1 ELSE 0)

CloseHandles(L, fin, wasCreate, io) ==
    [L |-> [L EXCEPT !.m_poFp = FALSE, !.m_poFpWrite = FALSE,
                     !.m_osTempFile = FALSE],
     F |-> IF L.m_osTempFile THEN [fin.F EXCEPT !.staging = "none"] ELSE fin.F,
     ret |-> IF fin.ok /\ ~(Handles(L) > 0 /\ ~io.close)
             THEN "CE_None" ELSE "CE_Failure",
     calls |-> fin.calls + Handles(L) + (IF L.m_osTempFile THEN 1 ELSE 0),
     nfin |-> IF wasCreate THEN 1 ELSE 0]

\* Close: nfin is the number of times finalization ran in this call.
Close(L, F, io) ==
    (LET fin_CloseAfter == IF L.m_create THEN CreateFinalFile(L, F, io) ELSE [L |-> L, F |-> F, ok |-> TRUE,
            calls |-> 0] IN CloseHandles(IF L.m_create THEN AfterFinalFile(fin_CloseAfter.L)
            ELSE fin_CloseAfter.L, fin_CloseAfter, L.m_create, io))

(***************************************************************************)
(* The writer as a state machine.                                          *)
(***************************************************************************)
\* the outcomes of the file calls of an operation when none fails
AllOk == [hdr |-> TRUE, feat |-> TRUE, open |-> TRUE, tree |-> TRUE,
          copy |-> TRUE, close |-> TRUE]

NoFeature == [geom |-> [kind |-> "none", env |-> NoEnvelope], str |-> "unset"]

\* A constructor that would start with the node size of a built index: the
\* variant C16 is checked against.
NewLayerWithNodeSize(idx, seekable, gtype) ==
    [m_create |-> TRUE, idx |-> idx, seekable |-> seekable, gtype |-> gtype,
     m_poFpWrite |-> TRUE, m_poFp |-> FALSE, m_osTempFile |-> TRUE,
     m_featuresCount |-> 0, m_writeOffset |-> 0, m_offsetAfterHeader |-> 0,
     m_maxFeatureSize |-> 0, m_sExtent |-> NoEnvelope, m_featureItems |-> <<>>,
     m_indexNodeSize |-> DefaultNodeSize, nFields |-> 0, meta |-> 0]

\* Create: the layer as its constructor leaves it, the output file opened
\* (and, for the temporary file, already unlinked) by CreateOutputFile.
NewLayer(idx, seekable, gtype) ==
    [m_create |-> TRUE, idx |-> idx, seekable |-> seekable, gtype |-> gtype,
     m_poFpWrite |-> TRUE, m_poFp |-> FALSE, m_osTempFile |-> TRUE,
     m_featuresCount |-> 0, m_writeOffset |-> 0, m_offsetAfterHeader |-> 0,
     m_maxFeatureSize |-> 0, m_sExtent |-> NoEnvelope, m_featureItems |-> <<>>,
     m_indexNodeSize |-> 0, nFields |-> 0, meta |-> 0]

\* CreateOutputFile, lines 2474-2509: with an index the temporary file is
\* created and unlinked at once, which leaves no file at its path where an
\* open file can be unlinked and the writer's own file elsewhere; without
\* index nothing is created at that path, which may name a file of another
\* owner.
StagingAfterCreate(idx) == IF idx THEN {"none", "own"} ELSE {"none", "other"}

NewFiles(staging) ==
    [dest |-> <<>>, temp |-> <<>>, wpos |-> 0, fpos |-> 0, staging |-> staging]

\* wlast: the operation, its feature, result, number of file calls and of
\* finalizations, the outcomes io its file calls were given, the state it
\* started from, and the counts of createFeature
\* calls, of Close calls, of finalizations and of failed
\* file calls so far.
Last(op, feat, r, nfin, nfaults, io) ==
    [op |-> op, feat |-> feat, ret |-> r.ret, calls |-> r.calls, nfin |-> nfin,
     io |-> io,
     creates |-> wlast.creates + (IF op = "createFeature" THEN 1 ELSE 0),
     closes |-> wlast.closes + (IF op = "Close" THEN 1 ELSE 0),
     reads |-> wlast.reads + (IF op \in {"ResetReading", "GetNextFeature"} THEN 1 ELSE 0),
     fins |-> wlast.fins + nfin,
     faults |-> wlast.faults + nfaults,
     pre |-> [layer |-> layer, fs |-> fs]]

\* The state after a call that returned r
Commit(r, op, feat, nfin, nfaults, io) ==
    /\ layer' = r.L
    /\ fs' = r.F
    /\ wlast' = Last(op, feat, r, nfin, nfaults, io)

Faults(flags) == Cardinality({i \in DOMAIN flags : ~flags[i]})

WInit ==
    \E idx \in BOOLEAN, seekable \in BOOLEAN, gtype \in {"Unknown", "Point"} :
      \E staging \in StagingAfterCreate(idx) :
        /\ layer = NewLayer(idx, seekable, gtype)
        /\ fs = NewFiles(staging)
        /\ wlast = [op |-> "Create", feat |-> NoFeature, ret |-> "OGRERR_NONE",
                    calls |-> 0, nfin |-> 0, io |-> AllOk, creates |-> 0, closes |-> 0,
                    reads |-> 0, fins |-> 0, faults |-> 0,
                    pre |-> [layer |-> NewLayer(idx, seekable, gtype),
                             fs |-> NewFiles(staging)]]

DoCreateFeature ==
    /\ wlast.creates < MaxFeatures
    /\ \E feat \in Features, hdr \in BOOLEAN, wr \in BOOLEAN :
        /\ feat.str = "unset" <=> layer.nFields = 0
        /\ wlast.faults + Faults(<<hdr, wr>>) <= MaxFaults
        /\ Commit(ICreateFeature(layer, fs, feat, [hdr |-> hdr, feat |-> wr]),
                  "createFeature", feat, 0, Faults(<<hdr, wr>>),
                  [AllOk EXCEPT !.hdr = hdr, !.feat = wr])

DoCreateField ==
    /\ layer.nFields < MaxFields
    /\ Commit(CreateField(layer, fs), "CreateField", NoFeature, 0, 0, AllOk)

DoSetMetadataItem ==
    /\ layer.meta = 0
    /\ Commit(SetMetadataItem(layer, fs), "SetMetadataItem", NoFeature, 0, 0, AllOk)

DoClose ==
    /\ wlast.closes < MaxCloses
    /\ \E open \in BOOLEAN, hdr \in BOOLEAN, tree \in BOOLEAN, copy \in BOOLEAN,
          close \in BOOLEAN :
        /\ wlast.faults + Faults(<<open, hdr, tree, copy, close>>) <= MaxFaults
        /\ (LET r_CommitClose == Close(layer, fs, [open |-> open, hdr |-> hdr, tree |-> tree, copy |-> copy,
                close |-> close]) IN Commit(r_CommitClose, "Close", NoFeature, r_CommitClose.nfin,
                (Faults(<<open, hdr, tree, copy, close>>)),
                [AllOk EXCEPT !.open = open, !.hdr = hdr, !.tree = tree, !.copy = copy,
                              !.close = close]))

WNext == DoCreateFeature \/ DoCreateField \/ DoSetMetadataItem \/ DoClose

WriterInit ==
    /\ WInit
    /\ rd = Idle /\ rlast = Idle /\ iter = Idle
    /\ dec = Idle /\ curve = Idle /\ clast = Idle /\ geo = Idle /\ pair = Idle /\ batch = Idle
WriterNext == WNext /\ UNCHANGED <<rvars, dvars, cvars, gvars, pvars, bvars>>

SpecWriter == WriterInit /\ [][WriterNext]_vars

(***************************************************************************)
(* Reading calls on a layer that is open for writing.                      *)
(***************************************************************************)
MaxReads == 1           \* reading calls per writer

\* ResetReading, lines 2445-2457, on a layer made by Create: m_poHeader is
\* null, so m_featuresCount becomes 0 (the other members it sets belong to
\* reading)
ResetReadingCreated(L, F) ==
    Res([L EXCEPT !.m_featuresCount = 0], F, "OGRERR_NONE", 0)

\* GetNextFeature, lines 989-992: a layer with m_create set returns nullptr
GetNextFeatureCreated(L, F) ==
    IF L.m_create THEN Res(L, F, "nullptr", 0)
    ELSE Res(L, F, "reads", 0)

DoResetReadingCreated ==
    /\ wlast.reads < MaxReads
    /\ layer.m_create
    /\ Commit(ResetReadingCreated(layer, fs), "ResetReading", NoFeature, 0, 0, AllOk)

DoGetNextFeatureCreated ==
    /\ wlast.reads < MaxReads
    /\ layer.m_create
    /\ Commit(GetNextFeatureCreated(layer, fs), "GetNextFeature", NoFeature, 0, 0, AllOk)

InterleavedNext ==
    /\ \/ WNext
       \/ DoResetReadingCreated
       \/ DoGetNextFeatureCreated
    /\ UNCHANGED <<rvars, dvars, cvars, gvars, pvars, bvars>>

SpecInterleaved == WriterInit /\ [][InterleavedNext]_vars

(***************************************************************************)
(* The reader (OGRFlatGeobufLayer opened on a file).                       *)
(*                                                                         *)
(* rd fields, named as the members they model; file is the content of the  *)
(* file, hdr the decoded header (m_poHeader), fpos the position of m_poFp   *)
(* and eof its end-of-file flag.                                           *)
(***************************************************************************)
\* The files a reader is opened on: the files a writer produces from a
\* sequence of features when no file call fails.
RECURSIVE WriteAll(_, _)
WriteAll(st, feats) ==
    IF feats = <<>> THEN st
    ELSE WriteAll(ICreateFeature(st.L, st.F, Head(feats), AllOk), Tail(feats))

WrittenFile(idx, seekable, feats) ==
    (LET st_Finish == WriteAll(Res(NewLayer(idx, seekable, "Unknown"), NewFiles("none"), "OGRERR_NONE", 0), feats)
            IN Close(st_Finish.L, st_Finish.F, AllOk).F.dest)

\* PackedRTree::size for at most DefaultNodeSize items: the root and the leaves
TreeSize(numItems) == numItems + 1

\* Open, lines 2540-2619: the offset of the first record
FeaturesOffset(hdr) ==
    Len(MagicCells) + HeaderLen(hdr)
    + (IF hdr.ins > 0 THEN TreeSize(hdr.count) ELSE 0)

\* Open, lines 2545-2578: the size of the header is read after the magic
\* bytes, then the header; a short read fails the call
Open(file) ==
    /\ Len(file) > Len(MagicCells)
    /\ file[Len(MagicCells) + 1].t = "H"
    /\ Len(file) >= Len(MagicCells) + HeaderLen(file[Len(MagicCells) + 1].h)

\* The reader constructor, lines 53-83
NewReader(file) ==
    [file |-> file, hdr |-> HeaderOf(file),
     m_indexNodeSize |-> HeaderOf(file).ins,
     m_offsetFeatures |-> FeaturesOffset(HeaderOf(file)),
     m_offset |-> FeaturesOffset(HeaderOf(file)),
     m_featuresCount |-> HeaderOf(file).count,
     m_featuresPos |-> 0, m_foundItems |-> <<>>,
     m_queriedSpatialIndex |-> FALSE, m_ignoreSpatialFilter |-> FALSE,
     m_ignoreAttributeFilter |-> FALSE, m_bEOF |-> FALSE,
     m_poFilterGeom |-> FALSE, m_sFilterEnvelope |-> NoEnvelope,
     m_sExtent |-> IF HeaderOf(file).hasExt THEN HeaderOf(file).ext ELSE NoEnvelope,
     fpos |-> 0, eof |-> FALSE]

ResetReading(R) ==
    [R EXCEPT !.m_offset = R.m_offsetFeatures, !.m_bEOF = FALSE,
              !.m_featuresPos = 0, !.m_foundItems = <<>>,
              !.m_featuresCount = R.hdr.count,
              !.m_queriedSpatialIndex = FALSE, !.m_ignoreSpatialFilter = FALSE,
              !.m_ignoreAttributeFilter = FALSE]

\* OGRLayer::SetSpatialFilterRect and SetSpatialFilter(nullptr): the filter is
\* installed and reading is reset
SetSpatialFilter(R, on, box) ==
    ResetReading([R EXCEPT !.m_poFilterGeom = on,
                           !.m_sFilterEnvelope = IF on THEN box ELSE NoEnvelope])

Intersects(a, b) ==
    a.MinX <= b.MaxX /\ a.MaxX >= b.MinX /\ a.MinY <= b.MaxY /\ a.MaxY >= b.MinY

\* OGRLayer::FilterGeometry with a rectangular filter: no geometry never
\* passes; a geometry passes when its envelope meets the filter envelope and
\* the geometry itself meets the rectangle (a line is the diagonal of its
\* envelope).
FilterGeometry(R, geom) ==
    /\ geom.kind \in {"point", "line"}
    /\ Intersects(geom.env, R.m_sFilterEnvelope)
    /\ geom.kind = "line" =>
          Max(Max(R.m_sFilterEnvelope.MinX, R.m_sFilterEnvelope.MinY), geom.env.MinX)
          <= Min(Min(R.m_sFilterEnvelope.MaxX, R.m_sFilterEnvelope.MaxY), geom.env.MaxX)

\* PackedRTree::streamSearch on a tree of one level: the leaves whose box
\* meets the query box, in leaf order, each with its offset and its index.
RECURSIVE streamSearch(_, _, _, _, _)
streamSearch(file, treeOffset, numItems, box, i) ==
    IF i >= numItems THEN <<>>
    ELSE (IF Intersects(file[treeOffset + 2 + i].box, box)
          THEN << [offset |-> file[treeOffset + 2 + i].off, index |-> i] >>
          ELSE <<>>)
         \o streamSearch(file, treeOffset, numItems, box, i + 1)

FilterContainsExtent(R) ==
    /\ R.m_sFilterEnvelope.init /\ R.m_sExtent.init
    /\ R.m_sFilterEnvelope.MinX <= R.m_sExtent.MinX
    /\ R.m_sFilterEnvelope.MinY <= R.m_sExtent.MinY
    /\ R.m_sFilterEnvelope.MaxX >= R.m_sExtent.MaxX
    /\ R.m_sFilterEnvelope.MaxY >= R.m_sExtent.MaxY

readIndex(R) ==
    IF R.m_queriedSpatialIndex \/ ~R.m_poFilterGeom THEN R
    ELSE IF FilterContainsExtent(R) THEN R
    ELSE IF R.hdr.ins = 0 THEN R
    ELSE IF R.hdr.count = 0 THEN R
    ELSE IF TreeSize(R.hdr.count) > 0 /\ R.m_poFilterGeom /\ ~R.m_ignoreSpatialFilter
        THEN (LET items_SetFoundItems == streamSearch(R.file, Len(MagicCells) + HeaderLen(R.hdr),
                R.hdr.count, R.m_sFilterEnvelope, 0) IN [R EXCEPT !.m_foundItems = items_SetFoundItems,
                !.m_featuresCount = Len(items_SetFoundItems), !.m_queriedSpatialIndex = TRUE])
    ELSE R

\* What a reader call returns: the layer after it, the feature if any, and
\* whether the call left the iteration as it was ("none"), reset ("reset") or
\* somewhere else ("moved").
Null(R) == [R |-> R, found |-> FALSE, fid |-> -1, feat |-> NoFeature, reset |-> "none"]

\* A parseFeature that would number and read the records in storage order
\* whatever the index query found: the variant C5 is checked against.
LocateSequential(R) ==
    [R |-> R, fid |-> R.m_featuresPos, seek |-> R.m_featuresPos = 0]

\* parseFeature, lines 1069-1088: where the next record is and its FID
Locate(R) ==
    IF R.m_queriedSpatialIndex /\ ~R.m_ignoreSpatialFilter
    THEN [R |-> [R EXCEPT !.m_offset = R.m_offsetFeatures
                                       + R.m_foundItems[R.m_featuresPos + 1].offset],
          fid |-> R.m_foundItems[R.m_featuresPos + 1].index, seek |-> TRUE]
    ELSE [R |-> R, fid |-> R.m_featuresPos, seek |-> R.m_featuresPos = 0]

\* parseFeature, lines 1096-1131 and the decoding that follows: the size is
\* read, then the record; a read at the end of the file sets the end-of-file
\* flag and returns OGRERR_NONE with nothing decoded.
ReadFeature(R, fid) ==
    IF R.fpos >= Len(R.file)
    THEN [R |-> [R EXCEPT !.eof = TRUE], err |-> "OGRERR_NONE", fid |-> fid,
          feat |-> NoFeature]
    ELSE IF R.file[R.fpos + 1].t # "S"
    THEN [R |-> R, err |-> "OGRERR_CORRUPT_DATA", fid |-> fid, feat |-> NoFeature]
    ELSE IF R.fpos + 1 + R.file[R.fpos + 1].n > Len(R.file)
    THEN [R |-> [R EXCEPT !.eof = TRUE], err |-> "OGRERR_FAILURE", fid |-> fid,
          feat |-> NoFeature]
    ELSE [R |-> [R EXCEPT !.fpos = @ + 1 + R.file[R.fpos + 1].n,
                          !.m_offset = @ + R.file[R.fpos + 1].n + 1],
          err |-> "OGRERR_NONE", fid |-> fid, feat |-> R.file[R.fpos + 2].feat]

parseFeature(R) == (LET loc_ParseAt == Locate(R) IN ReadFeature((IF loc_ParseAt.seek
        THEN [loc_ParseAt.R EXCEPT !.fpos = loc_ParseAt.R.m_offset, !.eof = FALSE] ELSE loc_ParseAt.R),
        loc_ParseAt.fid))

RECURSIVE GetNextFeature(_)

\* lines 1028-1034
Deliver(R, p) ==
    IF ~R.m_poFilterGeom \/ R.m_ignoreSpatialFilter \/ FilterGeometry(R, p.feat.geom)
    THEN [R |-> R, found |-> TRUE, fid |-> p.fid, feat |-> p.feat, reset |-> "none"]
    ELSE GetNextFeature(R)

\* lines 1015-1028
AfterParse(p) ==
    IF p.err # "OGRERR_NONE" THEN Null(p.R)
    ELSE IF p.R.eof THEN Null(p.R)
    ELSE Deliver([p.R EXCEPT !.m_featuresPos = @ + 1], p)

GetNextFeature(R) ==
    IF R.m_featuresCount > 0 /\ R.m_featuresPos >= R.m_featuresCount THEN Null(R)
    ELSE (LET R_AfterIndex == readIndex(R) IN IF R_AfterIndex.m_queriedSpatialIndex
            /\ R_AfterIndex.m_featuresCount = 0 THEN Null(R_AfterIndex)
            ELSE AfterParse(parseFeature(R_AfterIndex)))

\* GetFeature, lines 883-895
GetFeatureAt(R, id) ==
    (LET g_ReturnFeature == GetNextFeature([R EXCEPT !.m_ignoreSpatialFilter = TRUE,
            !.m_ignoreAttributeFilter = TRUE, !.m_offset = R.m_offsetFeatures + (R.file[R.m_offset - TreeSize(R.m_featuresCount) + 1 + id + 1].off)]) IN [R |-> ResetReading(g_ReturnFeature.R), found |-> g_ReturnFeature.found, fid |-> IF g_ReturnFeature.found THEN id ELSE g_ReturnFeature.fid, feat |-> g_ReturnFeature.feat, reset |-> "reset"])

\* OGRLayer::GetFeature: reading is reset and the features are read in turn
\* until one has the FID asked for
RECURSIVE ScanFor(_, _)
ScanFor(g, id) ==
    IF ~g.found \/ g.fid = id THEN [g EXCEPT !.reset = "moved"]
    ELSE ScanFor(GetNextFeature(g.R), id)

GetFeature(R, id) ==
    IF R.m_indexNodeSize = 0 THEN (ScanFor(GetNextFeature(ResetReading(R)), id))
    ELSE IF id < 0 \/ id >= R.m_featuresCount THEN Null(R)
    ELSE GetFeatureAt(ResetReading(R), id)

(***************************************************************************)
(* The reader as a state machine.                                          *)
(*   rlast : the last reader call, its argument and what it returned       *)
(*   iter  : the FIDs returned by GetNextFeature since reading was last    *)
(*           reset, whether that iteration reached its end, and whether it *)
(*           started at a reset (clean)                                    *)
(***************************************************************************)
MaxRecords == 2         \* records in the file a reader is opened on

FilterBoxes ==
    { Env(x1, y1, x2, y2) : x1 \in Coords, y1 \in Coords, x2 \in Coords, y2 \in Coords }
    \ { b \in [init : {TRUE}, MinX : Coords, MinY : Coords, MaxX : Coords, MaxY : Coords] :
            b.MinX > b.MaxX \/ b.MinY > b.MaxY }

FreshIter == [fids |-> <<>>, done |-> FALSE, clean |-> TRUE]

RInit ==
    \E idx \in BOOLEAN, seekable \in BOOLEAN, n \in 0 .. MaxRecords :
      \E feats \in [1 .. n -> ({ [geom |-> g, str |-> "unset"] : g \in { h \in ({ g \in Geometries : g.kind # "empty" }) : idx => h.kind # "none" } })] :
        /\ idx => seekable
        /\ HasHeader(WrittenFile(idx, seekable, feats))
        /\ rd = NewReader(WrittenFile(idx, seekable, feats))
        /\ rlast = [op |-> "Open", id |-> 0, found |-> FALSE, fid |-> -1,
                    feat |-> NoFeature, wasDone |-> FALSE]
        /\ iter = FreshIter

\* The state after a reader call that returned g
RCommit(g, op, id) ==
    /\ rd' = g.R
    /\ rlast' = [op |-> op, id |-> id, found |-> g.found, fid |-> g.fid,
                 feat |-> g.feat, wasDone |-> iter.done]
    /\ iter' = IF op = "GetNextFeature"
               THEN IF g.found THEN [iter EXCEPT !.fids = Append(@, g.fid)]
                    ELSE [iter EXCEPT !.done = TRUE]
               ELSE IF g.reset = "reset" THEN FreshIter
               ELSE IF g.reset = "moved" THEN [FreshIter EXCEPT !.clean = FALSE]
               ELSE iter

Returned(R, reset) ==
    [R |-> R, found |-> FALSE, fid |-> -1, feat |-> NoFeature, reset |-> reset]

DoSetSpatialFilter ==
    \/ \E box \in FilterBoxes :
          RCommit(Returned(SetSpatialFilter(rd, TRUE, box), "reset"),
                  "SetSpatialFilter", 0)
    \/ RCommit(Returned(SetSpatialFilter(rd, FALSE, NoEnvelope), "reset"),
               "SetSpatialFilter", 0)

DoResetReading == RCommit(Returned(ResetReading(rd), "reset"), "ResetReading", 0)

DoGetNextFeature == RCommit(GetNextFeature(rd), "GetNextFeature", 0)

DoGetFeature ==
    \E id \in -1 .. MaxRecords : RCommit(GetFeature(rd, id), "GetFeature", id)

RNext == DoSetSpatialFilter \/ DoResetReading \/ DoGetNextFeature \/ DoGetFeature

ReaderInit ==
    /\ RInit
    /\ layer = Idle /\ fs = Idle /\ wlast = Idle
    /\ dec = Idle /\ curve = Idle /\ clast = Idle /\ geo = Idle /\ pair = Idle /\ batch = Idle
ReaderNext == RNext /\ UNCHANGED <<wvars, dvars, cvars, gvars, pvars, bvars>>

SpecReader == ReaderInit /\ [][ReaderNext]_vars

(***************************************************************************)
(* Properties of the writer.                                               *)
(***************************************************************************)
ClosedWriterCall == ~wlast.pre.layer.m_create

\* C1: createFeature is accepted only while the writer is open; the first
\* Close runs finalization exactly once and leaves the writer closed whether
\* finalization succeeded or not; a later Close runs no finalization and makes
\* no file call; a createFeature after Close fails and writes nothing.
C1_WriterLifecycle ==
    /\ wlast.fins <= 1
    /\ layer.m_create <=> wlast.closes = 0
    /\ wlast.op = "Close" /\ ~ClosedWriterCall => wlast.nfin = 1 /\ ~layer.m_create
    /\ wlast.op = "Close" /\ ClosedWriterCall =>
          wlast.nfin = 0 /\ wlast.calls = 0 /\ fs = wlast.pre.fs
    /\ wlast.op = "createFeature" /\ wlast.ret = "OGRERR_NONE" => ~ClosedWriterCall
    /\ wlast.op = "createFeature" /\ ClosedWriterCall =>
          /\ wlast.ret = "OGRERR_FAILURE"
          /\ wlast.calls = 0
          /\ fs = wlast.pre.fs
          /\ layer = wlast.pre.layer

\* A second Close of a writer that holds a feature and whose first Close
\* reported a failure.
C1_Witness ==
    /\ wlast.op = "Close" /\ wlast.closes = 2 /\ wlast.fins = 1
    /\ layer.m_featuresCount > 0
    /\ wlast.faults > 0

\* C2: a Close of a writer without index on a destination that supports
\* seeking, after at least one feature, and with no failing file call, writes
\* a header exactly as long as the placeholder, leaves every byte after the
\* placeholder as it was, and the header carries the number of features
\* written and the union of their envelopes.
C2_HeaderRewrittenInPlace ==
    ( /\ wlast.op = "Close" /\ ~ClosedWriterCall /\ wlast.faults = 0
      /\ ~layer.idx /\ layer.seekable /\ layer.m_featuresCount >= 1 )
    => /\ HasHeader(fs.dest)
       /\ Len(MagicCells) + HeaderLen(HeaderOf(fs.dest)) = layer.m_offsetAfterHeader
       /\ Len(fs.dest) = Len(wlast.pre.fs.dest)
       /\ \A i \in layer.m_offsetAfterHeader + 1 .. Len(fs.dest) :
             fs.dest[i] = wlast.pre.fs.dest[i]
       /\ HeaderOf(fs.dest).count = layer.m_featuresCount
       /\ HeaderOf(fs.dest).ext = layer.m_sExtent

\* C3: a createFeature that returns an error leaves the feature count, the
\* extent, the write offset, the index entries and the output bytes unchanged.
C3_FailedCreateChangesNothing ==
    wlast.op = "createFeature" /\ wlast.ret = "OGRERR_FAILURE"
    => /\ layer.m_featuresCount = wlast.pre.layer.m_featuresCount
       /\ layer.m_sExtent = wlast.pre.layer.m_sExtent
       /\ layer.m_writeOffset = wlast.pre.layer.m_writeOffset
       /\ layer.m_featureItems = wlast.pre.layer.m_featureItems
       /\ fs.dest = wlast.pre.fs.dest
       /\ fs.temp = wlast.pre.fs.temp

\* the header of an empty layer written with an index asked for
EmptyHeader(L) ==
    [count |-> 0, hasExt |-> FALSE, ext |-> NoEnvelope,
     nFields |-> L.nFields, meta |-> L.meta, ins |-> 0]

\* C16: a writer with indexing enabled that is closed without any successful
\* createFeature, no file call of the Close failing, leaves a destination
\* that is the magic bytes and one header with feature count 0 and index
\* node size 0, with nothing after it; the file opens, and the iteration over
\* it returns no feature.
C16_EmptyIndexedFile ==
    ( /\ wlast.op = "Close" /\ wlast.nfin = 1 /\ wlast.io = AllOk
      /\ layer.idx /\ layer.m_featuresCount = 0 )
    => /\ wlast.ret = "CE_None"
       /\ Len(fs.dest) = Len(MagicCells) + HeaderLen(EmptyHeader(layer))
       /\ SubSeq(fs.dest, 1, Len(MagicCells)) = MagicCells
       /\ \A i \in Len(MagicCells) + 1 .. Len(fs.dest) :
             fs.dest[i].t = "H" /\ fs.dest[i].h = EmptyHeader(layer)
       /\ Open(fs.dest)
       /\ ~GetNextFeature(NewReader(fs.dest)).found

\* A writer with an index is closed after a createFeature that failed on its
\* record, which left bytes in the temporary file.
C16_Witness ==
    /\ wlast.op = "Close" /\ wlast.nfin = 1 /\ wlast.io = AllOk
    /\ layer.idx /\ layer.m_featuresCount = 0
    /\ wlast.creates >= 1 /\ layer.m_writeOffset > 0
    /\ Len(fs.dest) > 0

\* a file call that finalization made in the Close from layer L has failed:
\* the write of the header, of the index tree, or the copy of a record
FinalizationCallFailed(L, io) ==
    IF ~L.idx THEN L.m_poFpWrite /\ L.seekable /\ ~io.hdr
    ELSE /\ io.open
         /\ \/ ~io.hdr
            \/ /\ L.m_writeOffset # 0 /\ L.m_featuresCount # 0
               /\ ~io.tree \/ ~io.copy

\* C17: when a seek, read or write of finalization fails (the write of the
\* final header, the header rewrite in place, the write of the index tree,
\* the copy of a feature body), Close returns a failure.
C17_FinalizationFailureFailsClose ==
    ( /\ wlast.op = "Close" /\ wlast.nfin = 1
      /\ FinalizationCallFailed(wlast.pre.layer, wlast.io) )
    => wlast.ret = "CE_Failure"

\* C18: Close removes the writer's own temporary file whether finalization
\* succeeded or not, and no other file: a file of another owner at the path
\* of the temporary file of a writer without index stays.
C18_CloseRemovesOnlyOwnStagingFile ==
    wlast.op = "Close"
    => /\ wlast.pre.fs.staging = "own" => fs.staging = "none"
       /\ wlast.pre.fs.staging = "other" => fs.staging = "other"

(***************************************************************************)
(* Properties of the reader.                                               *)
(***************************************************************************)
\* The records of a file found by walking them from the first one, each size
\* prefix leading to the next record: the number of records, and the feature
\* of the record at storage position k (from 0).
RECURSIVE CountRecords(_, _)
CountRecords(file, off) ==
    IF off >= Len(file) THEN 0
    ELSE 1 + CountRecords(file, off + 1 + file[off + 1].n)

RECURSIVE RecordAt(_, _, _)
RecordAt(file, off, k) ==
    IF k = 0 THEN file[off + 2].feat
    ELSE RecordAt(file, off + 1 + file[off + 1].n, k - 1)

StoredCount == CountRecords(rd.file, rd.m_offsetFeatures)
Stored(k) == RecordAt(rd.file, rd.m_offsetFeatures, k)

\* C4: on a file with an index (index node size > 0), whatever the state of
\* the reader and its filter, GetFeature(id) returns the record at storage
\* position id with FID id when 0 <= id < the header's feature count, and
\* nothing otherwise.
C4_GetFeatureByRow ==
    rlast.op = "GetFeature" /\ rd.m_indexNodeSize > 0
    => IF rlast.id >= 0 /\ rlast.id < rd.hdr.count
       THEN rlast.found /\ rlast.fid = rlast.id /\ rlast.feat = Stored(rlast.id)
       ELSE ~rlast.found

\* C5: an iteration that starts at a reset and runs to its end returns
\* exactly the records a full scan testing the filter keeps, each once, by
\* increasing FID, each with the FID of its storage position; the index is
\* not consulted when the filter box contains the extent; after the end every
\* further GetNextFeature returns nothing.
C5_FilteredIteration ==
    /\ iter.clean /\ iter.done =>
          /\ ({ iter.fids[i] : i \in DOMAIN iter.fids }) = ({ k \in 0 .. StoredCount - 1 : ~rd.m_poFilterGeom \/ FilterGeometry(rd, Stored(k).geom) })
          /\ \A i \in DOMAIN iter.fids, j \in DOMAIN iter.fids :
                i < j => iter.fids[i] < iter.fids[j]
          /\ rd.m_poFilterGeom /\ FilterContainsExtent(rd) => ~rd.m_queriedSpatialIndex
    /\ iter.clean /\ rlast.op = "GetNextFeature" /\ rlast.found =>
          rlast.fid < StoredCount /\ rlast.feat = Stored(rlast.fid)
    /\ iter.clean /\ rlast.op = "GetNextFeature" /\ rlast.wasDone => ~rlast.found

\* An iteration through the index that ended after returning some of the
\* records and leaving some out.
C5_Witness ==
    /\ iter.clean /\ iter.done /\ rd.m_queriedSpatialIndex
    /\ Len(iter.fids) >= 1 /\ Len(iter.fids) < StoredCount
    /\ iter.fids[1] > 0

(***************************************************************************)
(* Decoding of the property stream of a record (parseFeature and           *)
(* GetNextArrowArray).  The layer is opened on a file with NumColumns      *)
(* columns and one record without geometry; the record's property stream   *)
(* is a sequence of tuples (column index i, payload p).                    *)
(***************************************************************************)
NumColumns == 2         \* columns of the header
MaxProps   == 2         \* tuples in a property stream
MaxPayload == 1         \* payloads range over 0..MaxPayload

PropertyStreams == UNION { [1..n -> ([i : 0..NumColumns, p : 0..MaxPayload])] : n \in 0..MaxProps }

\* OGR_RawField_SetUnset / OGR_RawField_IsUnset
UnsetField == [set |-> FALSE, v |-> 0]
OGR_RawField_IsUnset(f) == ~f.set

\* ParseDateTime || OGRParseDate; payload 0 stands for a text neither accepts
ParseDateTime(p) == p # 0

\* the state of one decode: the header's columns, the ignored flags, the
\* fields (or array cells) of the feature, the number of values stored in
\* each, and abSetFields
NewDecode(cols, ignored) ==
    [cols |-> cols, ignored |-> ignored,
     op |-> "Open", stream |-> <<>>, rc |-> "NONE",
     fields |-> [c \in 1..NumColumns |-> UnsetField],
     stores |-> [c \in 1..NumColumns |-> 0],
     abSetFields |-> [c \in 1..NumColumns |-> FALSE]]

StartDecode(D, op, stream) ==
    [NewDecode(D.cols, D.ignored) EXCEPT !.op = op, !.stream = stream]

StoreValue(D, c, p) ==
    [D EXCEPT !.fields[c] = [set |-> TRUE, v |-> p], !.stores[c] = @ + 1]

\* parseFeature, lines 1223-1439: the switch on the column type
RowValue(D, c, p) ==
    IF D.ignored[c] THEN D
    ELSE IF D.cols[c] = "DateTime" /\ ~ParseDateTime(p)
    THEN [D EXCEPT !.fields[c] = UnsetField]
    ELSE StoreValue(D, c, p)

\* parseFeature, lines 1189-1442: the loop over the property stream
RECURSIVE parseProperties(_, _)
parseProperties(D, k) ==
    IF k > Len(D.stream) THEN [D EXCEPT !.rc = "NONE"]
    ELSE IF D.stream[k].i >= Len(D.cols) THEN [D EXCEPT !.rc = "CORRUPT_DATA"]
    ELSE IF ~OGR_RawField_IsUnset(D.fields[D.stream[k].i + 1])
    THEN [D EXCEPT !.rc = "CORRUPT_DATA"]
    ELSE parseProperties(RowValue(D, D.stream[k].i + 1, D.stream[k].p), k + 1)

\* GetNextArrowArray, lines 1693-1969: the switch on the column type
ArrowValue(D, c, p) ==
    IF D.ignored[c] THEN D
    ELSE IF D.cols[c] = "DateTime" /\ ~ParseDateTime(p) THEN D
    ELSE StoreValue(D, c, p)

\* GetNextArrowArray, lines 1661-1970: the loop over the property stream;
\* the error label clears the array
RECURSIVE arrowProperties(_, _)
arrowProperties(D, k) ==
    IF k > Len(D.stream) THEN [D EXCEPT !.rc = "NONE"]
    ELSE IF D.stream[k].i >= Len(D.cols)
    THEN [D EXCEPT !.rc = "EIO",
                   !.fields = [c \in 1..NumColumns |-> UnsetField]]
    ELSE arrowProperties(
             ArrowValue(([D EXCEPT !.abSetFields[(D.stream[k].i + 1)] = TRUE]),
                        D.stream[k].i + 1, D.stream[k].p), k + 1)

DInit ==
    \E cols \in [1..NumColumns -> ({"Int", "String", "DateTime"})],
       ignored \in [1..NumColumns -> BOOLEAN] :
        dec = NewDecode(cols, ignored)

\* GetNextFeature on the record: parseFeature
DoParseFeature ==
    \E stream \in PropertyStreams :
        dec' = parseProperties(StartDecode(dec, "parseFeature", stream), 1)

\* GetNextArrowArray on the record
DoGetNextArrowArray ==
    \E stream \in PropertyStreams :
        dec' = arrowProperties(StartDecode(dec, "GetNextArrowArray", stream), 1)

DNext == DoParseFeature \/ DoGetNextArrowArray

DecodeInit ==
    /\ DInit
    /\ layer = Idle /\ fs = Idle /\ wlast = Idle
    /\ rd = Idle /\ rlast = Idle /\ iter = Idle
    /\ curve = Idle /\ clast = Idle /\ geo = Idle /\ pair = Idle /\ batch = Idle
DecodeNext == DNext /\ UNCHANGED <<wvars, rvars, cvars, gvars, pvars, bvars>>

SpecDecode == DecodeInit /\ [][DecodeNext]_vars

(***************************************************************************)
(* Properties of the decoding.                                             *)
(***************************************************************************)
HasDuplicate(stream) ==
    \E a, b \in DOMAIN stream : a < b /\ stream[a].i = stream[b].i

\* C6: on the row-level path and on the columnar path, for every column
\* type and whether or not the column is ignored, a property stream that
\* holds the same column index twice fails to decode, and no field ever
\* receives a second value.
C6_DuplicateColumnIsCorrupt ==
    dec.op \in {"parseFeature", "GetNextArrowArray"} /\ HasDuplicate(dec.stream)
    => /\ dec.rc # "NONE"
       /\ \A c \in 1..NumColumns : dec.stores[c] <= 1


(***************************************************************************)
(* The curve (OGRSimpleCurve / OGRLineString).                             *)
(*                                                                         *)
(* curve fields, named as the members they model:                          *)
(*   flags = [z, m]      OGR_G_3D and OGR_G_MEASURED                       *)
(*   nPointCount, m_nPointCapacity                                         *)
(*   paoPoints, padfZ, padfM : [alloc, a]; alloc = FALSE is the null       *)
(*       pointer, a holds the elements of the allocated block (a pair      *)
(*       <<x, y>> per element of paoPoints)                                *)
(*   srs                 the spatial reference assigned to the geometry    *)
(* Coordinates are integers that stand for doubles.  An allocation step    *)
(* takes al = [fail, junk]: the allocation site that fails in this call    *)
(* ("none" when all succeed) and the content of memory that malloc or      *)
(* realloc hands out without initialising it.                              *)
(***************************************************************************)
MaxIndex  == 2          \* vertex indexes passed to setPoint range over 0..MaxIndex
MaxOps    == 3          \* operations applied to a curve
MaxAllocFaults == 1     \* failing allocations per curve

IntMax == 2147483647                \* std::numeric_limits<int>::max()
MaxPointCount == 134217727          \* IntMax / sizeof(OGRRawPoint)
Junk == 99                          \* a value found in uninitialised memory

NullArray == [alloc |-> FALSE, a |-> <<>>]

\* VSI_CALLOC_VERBOSE
Calloc(size, zero) == [alloc |-> TRUE, a |-> [i \in 1..size |-> zero]]

\* VSI_REALLOC_VERBOSE: the old elements are kept, the new ones hold anything
Realloc(arr, size, fill) ==
    [alloc |-> TRUE,
     a |-> [i \in 1..size |-> IF i <= Len(arr.a) THEN arr.a[i] ELSE fill]]

Ok(C)   == [C |-> C, ok |-> TRUE]
Fail(C) == [C |-> C, ok |-> FALSE]

\* OGRLineString()
NewCurve ==
    [flags |-> [z |-> FALSE, m |-> FALSE],
     nPointCount |-> 0, m_nPointCapacity |-> 0,
     paoPoints |-> NullArray, padfZ |-> NullArray, padfM |-> NullArray,
     srs |-> "none"]

Make2D(C) == [C EXCEPT !.padfZ = NullArray, !.flags.z = FALSE]

Make3D(C, al) ==
    IF C.padfZ.alloc THEN Ok([C EXCEPT !.flags.z = TRUE])
    ELSE IF al.fail = "Make3D" THEN Fail([C EXCEPT !.flags.z = FALSE])
    ELSE Ok([C EXCEPT !.padfZ = Calloc(Max(1, C.m_nPointCapacity), 0),
                      !.flags.z = TRUE])

RemoveM(C) == [C EXCEPT !.padfM = NullArray, !.flags.m = FALSE]

AddM(C, al) ==
    IF C.padfM.alloc THEN Ok([C EXCEPT !.flags.m = TRUE])
    ELSE IF al.fail = "AddM" THEN Fail([C EXCEPT !.flags.m = FALSE])
    ELSE Ok([C EXCEPT !.padfM = Calloc(Max(1, C.m_nPointCapacity), 0),
                      !.flags.m = TRUE])

set3D(C, bIs3D, al) == IF bIs3D THEN Make3D(C, al) ELSE Ok(Make2D(C))

setMeasured(C, bIsMeasured, al) == IF bIsMeasured THEN AddM(C, al) ELSE Ok(RemoveM(C))

\* OGRGeometry::CoordinateDimension
CoordinateDimension(C) ==
    2 + (IF C.flags.z THEN 1 ELSE 0) + (IF C.flags.m THEN 1 ELSE 0)

\* iVertex counts from 0
getXY(C, iVertex) == C.paoPoints.a[iVertex + 1]

getZ(C, iVertex) ==
    IF C.padfZ.alloc /\ iVertex >= 0 /\ iVertex < C.nPointCount /\ C.flags.z
    THEN C.padfZ.a[iVertex + 1] ELSE 0

getM(C, iVertex) ==
    IF C.padfM.alloc /\ iVertex >= 0 /\ iVertex < C.nPointCount /\ C.flags.m
    THEN C.padfM.a[iVertex + 1] ELSE 0

\* setNumPoints, lines 472-478
NewCapacity(C, n) ==
    IF C.nPointCount = 0 \/ n > MaxPointCount - n \div 3 THEN n ELSE n + n \div 3

\* setNumPoints, lines 480-492
FreeIfEmpty(C) ==
    IF C.nPointCount = 0 /\ C.paoPoints.alloc
    THEN [C EXCEPT !.paoPoints = NullArray, !.padfZ = NullArray,
                   !.padfM = NullArray, !.m_nPointCapacity = 0]
    ELSE C

\* setNumPoints, lines 494-500
ReallocPoints(C, cap, al) ==
    IF al.fail = "xy" THEN Fail(C)
    ELSE Ok([C EXCEPT !.paoPoints = Realloc(@, cap, <<al.junk, al.junk>>)])

\* setNumPoints, lines 502-511
ReallocZ(R, cap, al) ==
    IF ~R.ok \/ ~R.C.flags.z THEN R
    ELSE IF al.fail = "z" THEN Fail(R.C)
    ELSE Ok([R.C EXCEPT !.padfZ = Realloc(@, cap, al.junk)])

\* setNumPoints, lines 513-522
ReallocM(R, cap, al) ==
    IF ~R.ok \/ ~R.C.flags.m THEN R
    ELSE IF al.fail = "m" THEN Fail(R.C)
    ELSE Ok([R.C EXCEPT !.padfM = Realloc(@, cap, al.junk)])

\* setNumPoints, lines 452-525
Reserve(C, n, al) ==
    IF n <= C.m_nPointCapacity THEN Ok(C)
    ELSE IF n > MaxPointCount THEN Fail(C)
    ELSE (LET R_SetCapacity == ReallocM(ReallocZ(ReallocPoints(FreeIfEmpty(C), NewCapacity(C, n), al),
            NewCapacity(C, n), al), NewCapacity(C, n), al) IN IF R_SetCapacity.ok
            THEN Ok([R_SetCapacity.C EXCEPT !.m_nPointCapacity = (NewCapacity(C, n))]) ELSE R_SetCapacity)

\* memset of the elements from .. to-1 (counted from 0) of an array
ZeroFill(arr, from, to, zero) ==
    [arr EXCEPT !.a = [i \in 1..Len(arr.a) |->
                          IF i > from /\ i <= to THEN zero ELSE arr.a[i]]]

\* setNumPoints, lines 527-544, without the zero fill
KeepNewContent(C, n) == C

\* setNumPoints, lines 527-544
ZeroizeNewContent(C, n) ==
    [C EXCEPT !.paoPoints = ZeroFill(@, C.nPointCount, n, <<0, 0>>),
              !.padfZ = IF C.flags.z /\ @.alloc
                        THEN ZeroFill(@, C.nPointCount, n, 0) ELSE @,
              !.padfM = IF C.flags.m /\ @.alloc
                        THEN ZeroFill(@, C.nPointCount, n, 0) ELSE @]

\* setNumPoints, lines 527-547
SetCount(R, n, bZeroizeNewContent) ==
    IF ~R.ok THEN R
    ELSE IF n > R.C.nPointCount /\ bZeroizeNewContent
    THEN Ok([ZeroizeNewContent(R.C, n) EXCEPT !.nPointCount = n])
    ELSE Ok([R.C EXCEPT !.nPointCount = n])

setNumPoints(C, n, bZeroizeNewContent, al) ==
    SetCount(Reserve(C, n, al), n, bZeroizeNewContent)

\* CheckPointCount and the growth at the head of every setPoint overload
\* (lines 627-631, 672-676, 724-728, 766-770)
EnsureCount(R, iPoint, al) ==
    IF ~R.ok \/ iPoint < R.C.nPointCount THEN R
    ELSE IF iPoint = IntMax THEN Fail(R.C)
    ELSE setNumPoints(R.C, iPoint + 1, TRUE, al)

\* lines 621-625, 713-717
EnsureZ(R, al) == IF ~R.ok \/ R.C.flags.z THEN R ELSE Make3D(R.C, al)

\* lines 666-670, 718-722
EnsureM(R, al) == IF ~R.ok \/ R.C.flags.m THEN R ELSE AddM(R.C, al)

StoreXY(R, iPoint, xIn, yIn) ==
    IF ~R.ok \/ ~R.C.paoPoints.alloc THEN Fail(R.C)
    ELSE Ok([R.C EXCEPT !.paoPoints.a[iPoint + 1] = <<xIn, yIn>>])

StoreZ(R, iPoint, zIn) ==
    IF R.ok /\ R.C.padfZ.alloc
    THEN Ok([R.C EXCEPT !.padfZ.a[iPoint + 1] = zIn]) ELSE R

StoreM(R, iPoint, mIn) ==
    IF R.ok /\ R.C.padfM.alloc
    THEN Ok([R.C EXCEPT !.padfM.a[iPoint + 1] = mIn]) ELSE R

\* setPoint(int, double, double)
setPointXY(C, iPoint, p, al) ==
    StoreXY(EnsureCount(Ok(C), iPoint, al), iPoint, p.x, p.y)

\* setPoint(int, double, double, double)
setPointXYZ(C, iPoint, p, al) ==
    StoreZ(StoreXY(EnsureCount(EnsureZ(Ok(C), al), iPoint, al), iPoint, p.x, p.y),
           iPoint, p.z)

\* setPointM(int, double, double, double)
setPointM(C, iPoint, p, al) ==
    StoreM(StoreXY(EnsureCount(EnsureM(Ok(C), al), iPoint, al), iPoint, p.x, p.y),
           iPoint, p.m)

\* setPoint(int, double, double, double, double)
setPointXYZM(C, iPoint, p, al) ==
    StoreM(StoreZ(StoreXY(EnsureCount(EnsureM(EnsureZ(Ok(C), al), al), iPoint, al),
                          iPoint, p.x, p.y),
                  iPoint, p.z),
           iPoint, p.m)

\* the overload that a call with the coordinates named by form selects
SetPointForm(C, form, iPoint, p, al) ==
    CASE form = "xy"   -> setPointXY(C, iPoint, p, al)
      [] form = "xyz"  -> setPointXYZ(C, iPoint, p, al)
      [] form = "xym"  -> setPointM(C, iPoint, p, al)
      [] form = "xyzm" -> setPointXYZM(C, iPoint, p, al)

\* the form of the overload that the flags fl select
FormOf(fl) ==
    IF fl.z /\ fl.m THEN "xyzm"
    ELSE IF fl.z THEN "xyz"
    ELSE IF fl.m THEN "xym"
    ELSE "xy"

\* OGRPoint: getZ() and getM() of a point without that dimension are 0
OGRPoint(x, y, z, m, fl) ==
    [x |-> x, y |-> y, z |-> IF fl.z THEN z ELSE 0, m |-> IF fl.m THEN m ELSE 0,
     flags |-> fl]

\* setPoint(int, OGRPoint *): the overload is chosen by the flags of the curve
setPointP(C, iPoint, poPoint, al) ==
    SetPointForm(C, FormOf(C.flags), iPoint, poPoint, al)

\* addPoint(const OGRPoint *): the overload is chosen by the flags of the point
addPointP(C, poPoint, al) ==
    SetPointForm(C, FormOf(poPoint.flags), C.nPointCount, poPoint, al)

\* a call of setPoint or addPoint: form "p" passes a point object
SetPointCall(C, form, iPoint, p, al) ==
    IF form = "p" THEN setPointP(C, iPoint, p, al)
    ELSE SetPointForm(C, form, iPoint, p, al)

(***************************************************************************)
(* Well known binary.  A buffer is a sequence of cells: the byte order     *)
(* byte, the 4-byte type, the 4-byte count, then one cell per 8-byte       *)
(* coordinate.  A cell holds the number v that its bytes spell and sw,     *)
(* whether the bytes are in the reverse of the host order (the host is     *)
(* little-endian); the bytes of 0 read the same in both orders.            *)
(***************************************************************************)
Cell(w, v, sw) == [w |-> w, v |-> v, sw |-> sw /\ v # 0]

\* CPL_SWAP32PTR, CPL_SWAP64PTR on a cell of a buffer
SwapCell(c) == Cell(c.w, c.v, ~c.sw)

\* memcpy of a double to a buffer and back: bytes in reverse order read as a
\* double are another number, which the model writes v + 1000
DoubleBits(d) == IF d >= 1000 THEN Cell(8, d - 1000, TRUE) ELSE Cell(8, d, FALSE)
BitsDouble(c) == IF c.sw THEN c.v + 1000 ELSE c.v

\* CPL_SWAPDOUBLE on an element of a coordinate array
CPL_SWAPDOUBLE(d) == BitsDouble(SwapCell(DoubleBits(d)))

\* OGR_SWAP on a little-endian host
OGR_SWAP(eByteOrder) == eByteOrder = "wkbXDR"

wkb25DBitInternalUse == -2147483647 - 1     \* 0x80000000 read as a 32-bit int
wkbMBitPostGIS == 1073741824                \* 0x40000000
wkbLineString == 2

\* OGRLineString::getGeometryType
getGeometryType(C) ==
    IF C.flags.z /\ C.flags.m THEN wkbLineString + 3000
    ELSE IF C.flags.m THEN wkbLineString + 2000
    ELSE IF C.flags.z THEN wkbLineString + wkb25DBitInternalUse
    ELSE wkbLineString

\* exportToWkb, lines 1770-1783
ExportType(C, eWkbVariant) ==
    CASE eWkbVariant = "wkbVariantPostGIS1" ->
             wkbLineString + (IF C.flags.z THEN wkb25DBitInternalUse ELSE 0)
                           + (IF C.flags.m THEN wkbMBitPostGIS ELSE 0)
      [] eWkbVariant = "wkbVariantIso" -> (wkbLineString + (IF C.flags.z THEN 1000 ELSE 0) + (IF C.flags.m
              THEN 2000 ELSE 0))
      [] OTHER -> getGeometryType(C)

WkbSize(C) == 5 + 4 + 8 * C.nPointCount * CoordinateDimension(C)

\* exportToWkb, lines 1804-1852: the k-th coordinate cell of the buffer
\* (k from 0), copied from the arrays point by point
RawCoordinate(C, k) ==
    CASE k % CoordinateDimension(C) = 0 ->
             DoubleBits(C.paoPoints.a[k \div CoordinateDimension(C) + 1][1])
      [] k % CoordinateDimension(C) = 1 ->
             DoubleBits(C.paoPoints.a[k \div CoordinateDimension(C) + 1][2])
      [] k % CoordinateDimension(C) = 2 /\ C.flags.z ->
             DoubleBits(C.padfZ.a[k \div CoordinateDimension(C) + 1])
      [] OTHER ->
             DoubleBits(C.padfM.a[k \div CoordinateDimension(C) + 1])

\* exportToWkb without precision rounding
exportToWkb(C, eByteOrder, eWkbVariant) ==
    << Cell(1, IF eByteOrder = "wkbNDR" THEN 1 ELSE 0, FALSE),
       Cell(4, ExportType(C, eWkbVariant), OGR_SWAP(eByteOrder)),
       Cell(4, C.nPointCount, OGR_SWAP(eByteOrder)) >>
    \o (LET cells_ExportSwap == [k \in 1..(C.nPointCount * CoordinateDimension(C)) |-> RawCoordinate(C,
            k - 1)] IN IF OGR_SWAP(eByteOrder) THEN [k \in DOMAIN cells_ExportSwap |-> SwapCell(cells_ExportSwap[k])] ELSE cells_ExportSwap)

\* OGRReadWKBGeometryType: the flags and the flat type that a type code holds
TypeHasZ(code) ==
    \/ code < 0
    \/ (code % wkbMBitPostGIS) \div 1000 \in {1, 3}

TypeHasM(code) ==
    \/ (IF code < 0 THEN code - wkb25DBitInternalUse ELSE code) >= wkbMBitPostGIS
    \/ (code % wkbMBitPostGIS) \div 1000 \in {2, 3}

\* the 32-bit integer that a cell spells when it is read in byte order
\* eByteOrder; 0 is the same in both byte orders
ReadInt32(c, eByteOrder) ==
    IF c.v = 0 \/ c.sw = OGR_SWAP(eByteOrder) THEN c.v ELSE c.v + 1000

BufferByteOrder(pabyData) == IF pabyData[1].v = 1 THEN "wkbNDR" ELSE "wkbXDR"

\* OGRGeometry::importPreambleFromWkb: the flags of the type are added to the
\* flags of the geometry, and the type must then be the type of the geometry
PreambleType(C, code) ==
    [C EXCEPT !.flags = [z |-> @.z \/ TypeHasZ(code), m |-> @.m \/ TypeHasM(code)]]

\* OGRGeometry::importPreambleOfCollectionFromWkb: empty(), then set3D and
\* setMeasured for the flags found
PreambleEmpty(C, al) ==
    (LET C_RestoreM == (LET C_RestoreZ == setNumPoints(C, 0, TRUE, al).C IN IF C.flags.z
            THEN set3D(C_RestoreZ, TRUE, al).C ELSE C_RestoreZ) IN IF C.flags.m THEN setMeasured(C_RestoreM,
            TRUE, al).C ELSE C_RestoreM)

Preamble(C, err, n) == [C |-> C, err |-> err, n |-> n]

importPreambleOfCollectionFromWkb(C, pabyData, al) ==
    IF Len(pabyData) < 3 THEN Preamble(C, "OGRERR_NOT_ENOUGH_DATA", 0)
    ELSE IF ~(LET code_TypeMatches == ReadInt32(pabyData[2], BufferByteOrder(pabyData))
            IN (((code_TypeMatches % wkbMBitPostGIS) % 1000) = wkbLineString) /\ (PreambleType(C,
            code_TypeMatches).flags = [z |-> TypeHasZ(code_TypeMatches), m |-> TypeHasM(code_TypeMatches)]))
    THEN Preamble(PreambleType(C, ReadInt32(pabyData[2], BufferByteOrder(pabyData))),
                  "OGRERR_CORRUPT_DATA", 0)
    ELSE IF ReadInt32(pabyData[3], BufferByteOrder(pabyData)) > MaxPointCount
    THEN Preamble(PreambleEmpty(
                      PreambleType(C, ReadInt32(pabyData[2], BufferByteOrder(pabyData))),
                      al),
                  "OGRERR_CORRUPT_DATA", 0)
    ELSE Preamble(PreambleEmpty(
                      PreambleType(C, ReadInt32(pabyData[2], BufferByteOrder(pabyData))),
                      al),
                  "OGRERR_NONE",
                  ReadInt32(pabyData[3], BufferByteOrder(pabyData)))

CopyCoordinates(C, pabyData) ==
    [C EXCEPT
        !.paoPoints.a = [k \in 1..Len(@) |->
                            IF k <= C.nPointCount THEN (LET i_WkbXY == k - 1
                                    IN << BitsDouble(pabyData[4 + i_WkbXY * CoordinateDimension(C)]),
                                    BitsDouble(pabyData[5 + i_WkbXY * CoordinateDimension(C)]) >>) ELSE @[k]],
        !.padfZ.a = [k \in 1..Len(@) |->
                        IF C.flags.z /\ k <= C.nPointCount
                        THEN (BitsDouble(pabyData[6 + (k - 1) * CoordinateDimension(C)])) ELSE @[k]],
        !.padfM.a = [k \in 1..Len(@) |->
                        IF C.flags.m /\ k <= C.nPointCount
                        THEN (BitsDouble(pabyData[(IF C.flags.z THEN 7
                                ELSE 6) + (k - 1) * CoordinateDimension(C)])) ELSE @[k]]]

\* an import that leaves the M plane in the byte order of the buffer
ImportSwapXYZ(C, eByteOrder) ==
    IF ~OGR_SWAP(eByteOrder) THEN C
    ELSE [C EXCEPT
            !.paoPoints.a = [k \in 1..Len(@) |->
                                IF k <= C.nPointCount
                                THEN << CPL_SWAPDOUBLE(@[k][1]), CPL_SWAPDOUBLE(@[k][2]) >>
                                ELSE @[k]],
            !.padfZ.a = [k \in 1..Len(@) |->
                            IF C.flags.z /\ k <= C.nPointCount
                            THEN CPL_SWAPDOUBLE(@[k]) ELSE @[k]]]

\* importFromWkb, lines 1717-1740
ImportSwap(C, eByteOrder) ==
    IF ~OGR_SWAP(eByteOrder) THEN C
    ELSE [C EXCEPT
            !.paoPoints.a = [k \in 1..Len(@) |->
                                IF k <= C.nPointCount
                                THEN << CPL_SWAPDOUBLE(@[k][1]), CPL_SWAPDOUBLE(@[k][2]) >>
                                ELSE @[k]],
            !.padfZ.a = [k \in 1..Len(@) |->
                            IF C.flags.z /\ k <= C.nPointCount
                            THEN CPL_SWAPDOUBLE(@[k]) ELSE @[k]],
            !.padfM.a = [k \in 1..Len(@) |->
                            IF C.flags.m /\ k <= C.nPointCount
                            THEN CPL_SWAPDOUBLE(@[k]) ELSE @[k]]]

Imported(C, err, nBytesConsumedOut) ==
    [C |-> C, err |-> err, nBytesConsumedOut |-> nBytesConsumedOut]

\* importFromWkb, lines 1674-1742
ImportPoints(R, pabyData) ==
    IF ~R.ok THEN Imported(R.C, "OGRERR_NOT_ENOUGH_MEMORY", 0)
    ELSE Imported(ImportSwap(CopyCoordinates(R.C, pabyData), BufferByteOrder(pabyData)),
                  "OGRERR_NONE",
                  9 + 8 * R.C.nPointCount * (2 + (IF R.C.flags.z THEN 1 ELSE 0)
                                               + (IF R.C.flags.m THEN 1 ELSE 0)))

\* an import that would not test the sign of the point count: the variant
\* C28 is checked against
ImportAfterPreambleAnyCount(P, pabyData, al) ==
    IF P.err # "OGRERR_NONE" THEN Imported(P.C, P.err, 0)
    ELSE IF CoordinateDimension(P.C) * 8 * P.n > 8 * (Len(pabyData) - 3)
    THEN Imported(P.C, "OGRERR_NOT_ENOUGH_DATA", 0)
    ELSE ImportPoints(setNumPoints(P.C, P.n, FALSE, al), pabyData)

\* importFromWkb, lines 1652-1675; nSize is the number of bytes of the buffer
\* after the preamble
ImportAfterPreamble(P, pabyData, al) ==
    IF P.err # "OGRERR_NONE" THEN Imported(P.C, P.err, 0)
    ELSE IF P.n < 0 THEN Imported(P.C, "OGRERR_CORRUPT_DATA", 0)
    ELSE IF CoordinateDimension(P.C) * 8 * P.n > 8 * (Len(pabyData) - 3)
    THEN Imported(P.C, "OGRERR_NOT_ENOUGH_DATA", 0)
    ELSE ImportPoints(setNumPoints(P.C, P.n, FALSE, al), pabyData)

importFromWkb(C, pabyData, al) ==
    ImportAfterPreamble(importPreambleOfCollectionFromWkb(C, pabyData, al), pabyData, al)

(***************************************************************************)
(* transform                                                               *)
(***************************************************************************)
\* OGRCoordinateTransformation::Transform on one coordinate
Transformed(v) == v + 10

\* transform, lines 2531-2545: the scratch copy of the points, transformed;
\* what Transform leaves in the place of a point it fails on is anything
Scratch(C, pabSuccess) ==
    [i \in 1..C.nPointCount |->
        IF pabSuccess[i]
        THEN << Transformed(C.paoPoints.a[i][1]), Transformed(C.paoPoints.a[i][2]),
                Transformed(IF C.padfZ.alloc THEN C.padfZ.a[i] ELSE 0) >>
        ELSE << Junk, Junk, Junk >>]

\* transform, lines 2550-2558: the points that succeeded, moved to the front
RECURSIVE Compact(_, _)
Compact(xyz, pabSuccess) ==
    IF xyz = <<>> THEN <<>>
    ELSE (IF Head(pabSuccess) THEN << Head(xyz) >> ELSE <<>>)
         \o Compact(Tail(xyz), Tail(pabSuccess))

\* lines 1213-1222
SetPointsAssign(R, nPointsIn, xyz, hasZ) ==
    IF ~R.ok THEN R
    ELSE Ok([R.C EXCEPT
                !.paoPoints.a = [k \in 1..Len(@) |->
                                    IF k <= nPointsIn THEN << xyz[k][1], xyz[k][2] >>
                                    ELSE @[k]],
                !.padfZ.a = [k \in 1..Len(@) |->
                                IF hasZ /\ k <= nPointsIn THEN xyz[k][3] ELSE @[k]]])

setPoints(C, nPointsIn, xyz, hasZ, al) ==
    SetPointsAssign((LET R_SetPointsCount == (IF hasZ THEN Make3D(C, al) ELSE Ok(Make2D(C)))
            IN IF R_SetPointsCount.ok THEN setNumPoints(R_SetPointsCount.C, nPointsIn, FALSE, al)
            ELSE R_SetPointsCount),
                    nPointsIn, xyz, hasZ)

Successes(pabSuccess) == Cardinality({i \in DOMAIN pabSuccess : pabSuccess[i]})

TransformResult(C, err) == [C |-> C, err |-> err]

\* transform, T = [pabSuccess, cfg, al]: what Transform reports for each
\* point, the configuration option, and the allocations
transform(C, T) ==
    IF T.al.fail = "xyz" THEN TransformResult(C, "OGRERR_NOT_ENOUGH_MEMORY")
    ELSE IF Successes(T.pabSuccess) < C.nPointCount /\ ~(T.cfg \notin {"unset", "NO"})
    THEN TransformResult(C, "OGRERR_FAILURE")
    ELSE IF Successes(T.pabSuccess) = 0 /\ C.nPointCount # 0
    THEN TransformResult(C, "OGRERR_FAILURE")
    ELSE TransformResult(
             ([(setPoints(C, Successes(T.pabSuccess), Compact(Scratch(C, T.pabSuccess), T.pabSuccess),
                     C.padfZ.alloc, T.al).C) EXCEPT !.srs = "target"]),
             "OGRERR_NONE")

(***************************************************************************)
(* The curve state machine.  clast = [op, args, res, pre, ops, faults,     *)
(* junk]: the last operation, its arguments, what it returned, the curve   *)
(* before it, the operations and failed allocations so far, and what this  *)
(* run finds in memory that is handed out uninitialised.                   *)
(***************************************************************************)

\* the allocation outcomes a call may meet: no failure, or, while the run
\* has failures left, the failure of one of the sites
Allocs(sites) ==
    { [fail |-> f, junk |-> clast.junk] :
        f \in (IF clast.faults < MaxAllocFaults THEN sites ELSE {}) \cup {"none"} }

GrowSites == {"Make3D", "AddM", "xy", "z", "m"}

\* the coordinates passed by the k-th operation on a curve
ArgPoint(k, fl) == OGRPoint(10 * k + 1, 10 * k + 2, 10 * k + 3, 10 * k + 4, fl)

\* the flags of the point that a call of the form passes
FormFlags(form) ==
    IF form = "p" THEN ([z : BOOLEAN, m : BOOLEAN])
    ELSE {[z |-> form \in {"xyz", "xyzm"}, m |-> form \in {"xym", "xyzm"}]}

Forms == {"xy", "xyz", "xym", "xyzm", "p"}

CInit ==
    /\ curve = NewCurve
    /\ \E junk \in ({0, Junk}) :
          clast = [op |-> "new", args |-> <<>>, res |-> <<>>, pre |-> NewCurve,
                   ops |-> 0, faults |-> 0, junk |-> junk]

CCommit(C, op, args, res, al) ==
    /\ clast.faults + (IF al.fail = "none" THEN 0 ELSE 1) <= MaxAllocFaults
    /\ curve' = C
    /\ clast' = [op |-> op, args |-> args, res |-> res, pre |-> curve,
                 ops |-> clast.ops + 1,
                 faults |-> clast.faults + (IF al.fail = "none" THEN 0 ELSE 1),
                 junk |-> clast.junk]

\* an operation that returns a bool; the allocation named by al fails only
\* if the operation gets to it
CommitBool(R, op, args, al) ==
    /\ al.fail # "none" => ~R.ok
    /\ CCommit(R.C, op, args, [ok |-> R.ok], al)

NoFail(al) == al.fail = "none"

DoSetPoint ==
    /\ clast.ops < MaxOps
    /\ \E form \in Forms, i \in (0..MaxIndex \cup {MaxPointCount, IntMax}), al \in Allocs(GrowSites) :
         \E fl \in FormFlags(form) :
           CommitBool(SetPointCall(curve, form, i, ArgPoint(clast.ops + 1, fl), al),
                      "setPoint",
                      [form |-> form, i |-> i, p |-> ArgPoint(clast.ops + 1, fl),
                       nofail |-> NoFail(al)],
                      al)

DoAddPoint ==
    /\ clast.ops < MaxOps
    /\ \E form \in Forms, al \in Allocs(GrowSites) :
         \E fl \in FormFlags(form) :
           (LET R_CommitAdd == (LET p_AddPointCall == ArgPoint(clast.ops + 1, fl) IN IF form = "p"
                   THEN addPointP(curve, p_AddPointCall, al) ELSE (SetPointForm(curve, form,
                   curve.nPointCount, p_AddPointCall, al))) IN (al.fail # "none" => ~R_CommitAdd.ok)
                   /\ (CCommit(R_CommitAdd.C, "addPoint", ([form |-> form, p |-> ArgPoint(clast.ops + 1,
                   fl), nofail |-> NoFail(al)]), [ok |-> R_CommitAdd.ok, alt |-> (SetPointCall(curve, form,
                   curve.nPointCount, ArgPoint(clast.ops + 1, fl), al))], al)))

DoSetNumPoints ==
    /\ clast.ops < MaxOps
    /\ \E n \in 0..(MaxIndex + 1), al \in Allocs({"xy", "z", "m"}) :
           CommitBool(setNumPoints(curve, n, TRUE, al), "setNumPoints",
                      [n |-> n, nofail |-> NoFail(al)], al)

DoSet3D ==
    /\ clast.ops < MaxOps
    /\ \E b \in BOOLEAN, al \in Allocs({"Make3D"}) :
           CommitBool(set3D(curve, b, al), "set3D", [b |-> b, nofail |-> NoFail(al)], al)

DoSetMeasured ==
    /\ clast.ops < MaxOps
    /\ \E b \in BOOLEAN, al \in Allocs({"AddM"}) :
           CommitBool(setMeasured(curve, b, al), "setMeasured",
                      [b |-> b, nofail |-> NoFail(al)], al)

CommitTransform(R, T) ==
    /\ T.al.fail # "none" => R.err = "OGRERR_NOT_ENOUGH_MEMORY"
    /\ CCommit(R.C, "transform",
            [pabSuccess |-> T.pabSuccess, cfg |-> T.cfg, nofail |-> NoFail(T.al)],
               [err |-> R.err], T.al)

DoTransform ==
    /\ clast.ops < MaxOps
    /\ \E pabSuccess \in [1..curve.nPointCount -> BOOLEAN],
          cfg \in {"unset", "NO", "YES"}, al \in Allocs({"xyz"}) :
           CommitTransform(
               transform(curve, [pabSuccess |-> pabSuccess, cfg |-> cfg, al |-> al]),
               [pabSuccess |-> pabSuccess, cfg |-> cfg, al |-> al])

CommitImport(buf, imp, eByteOrder, eWkbVariant, al) ==
    /\ al.fail # "none" => imp.err = "OGRERR_NOT_ENOUGH_MEMORY"
    /\ CCommit(curve, "wkb",
               [eByteOrder |-> eByteOrder, eWkbVariant |-> eWkbVariant,
                nofail |-> NoFail(al)],
               [buf |-> buf, imp |-> imp,
                again |-> (IF imp.err = "OGRERR_NONE" THEN exportToWkb(imp.C, eByteOrder, eWkbVariant)
                        ELSE <<>>)],
               al)

\* exportToWkb, then importFromWkb of the buffer into a new curve, then
\* exportToWkb of that curve
DoWkbRoundTrip ==
    /\ clast.ops < MaxOps
    /\ ((curve.flags.z => curve.padfZ.alloc) /\ (curve.flags.m => curve.padfM.alloc))
    /\ \E eByteOrder \in ({"wkbXDR", "wkbNDR"}), eWkbVariant \in ({"wkbVariantOldOgc", "wkbVariantIso",
            "wkbVariantPostGIS1"}),
          al \in Allocs({"xy"}) :
        (LET buf_CommitExport == exportToWkb(curve, eByteOrder, eWkbVariant)
                IN CommitImport(buf_CommitExport, importFromWkb(NewCurve, buf_CommitExport, al), eByteOrder,
                eWkbVariant, al))

CNext ==
    \/ DoSetPoint
    \/ DoAddPoint
    \/ DoSetNumPoints
    \/ DoSet3D
    \/ DoSetMeasured
    \/ DoTransform
    \/ DoWkbRoundTrip

CurveInit ==
    /\ CInit
    /\ layer = Idle /\ fs = Idle /\ wlast = Idle
    /\ rd = Idle /\ rlast = Idle /\ iter = Idle
    /\ dec = Idle /\ geo = Idle /\ pair = Idle /\ batch = Idle
CurveNext == CNext /\ UNCHANGED <<wvars, rvars, dvars, gvars, pvars, bvars>>

SpecCurve == CurveInit /\ [][CurveNext]_vars

(***************************************************************************)
(* Properties of the curve.                                                *)
(***************************************************************************)
\* getPoint: vertex k (from 0) as its getters give it
Vertex(C, k) == << getXY(C, k)[1], getXY(C, k)[2], getZ(C, k), getM(C, k) >>

Vertices(C) == [k \in 1..C.nPointCount |-> Vertex(C, k - 1)]

\* C7: exportToWkb without rounding, importFromWkb into a new curve and
\* exportToWkb again, in either byte order and any variant, give the same
\* buffer twice; the imported curve has the point count, the flags and the
\* coordinates of every plane of the exported one, and importFromWkb reports
\* WkbSize() bytes consumed.
C7_WkbRoundTrip ==
    clast.op = "wkb" /\ clast.args.nofail
    => /\ clast.res.imp.err = "OGRERR_NONE"
       /\ clast.res.again = clast.res.buf
       /\ clast.res.imp.C.nPointCount = curve.nPointCount
       /\ clast.res.imp.C.flags = curve.flags
       /\ Vertices(clast.res.imp.C) = Vertices(curve)
       /\ clast.res.imp.nBytesConsumedOut = WkbSize(curve)
       /\ 9 + 8 * (Len(clast.res.buf) - 3) = WkbSize(curve)

C7_Witness ==
    /\ clast.op = "wkb" /\ clast.args.nofail
    /\ clast.args.eByteOrder = "wkbXDR"
    /\ curve.flags.z /\ curve.flags.m /\ curve.nPointCount = 2
    /\ getM(curve, 0) # 0 /\ getZ(curve, 1) # 0
    /\ clast.res.again = clast.res.buf

FormHasZ(form) == form \in {"xyz", "xyzm"}
FormHasM(form) == form \in {"xym", "xyzm"}

\* a call of setPoint with coordinates
SetPointCoordinates == clast.op = "setPoint" /\ clast.args.form # "p"

C9_AddPointIsSetPointAtCount ==
    clast.op = "addPoint"
    => /\ clast.res.ok = clast.res.alt.ok
       /\ curve.nPointCount = clast.res.alt.C.nPointCount
       /\ curve.flags = clast.res.alt.C.flags
       /\ Vertices(curve) = Vertices(clast.res.alt.C)

\* the k-th point (from 1) that Transform succeeded on
Survivor(pabSuccess, k) ==
    CHOOSE i \in DOMAIN pabSuccess :
        pabSuccess[i] /\ Cardinality({j \in 1..(i - 1) : pabSuccess[j]}) = k - 1

\* transform that fails, lines 2552-2599: the curve is as it was
TransformFailureLeavesCurve ==
    \/ /\ Successes(clast.args.pabSuccess) < clast.pre.nPointCount
       /\ clast.args.cfg \in {"unset", "NO"}
    \/ /\ Successes(clast.args.pabSuccess) = 0
       /\ clast.pre.nPointCount > 0
    => clast.res.err = "OGRERR_FAILURE" /\ curve = clast.pre

\* the original vertex (from 0) that vertex k (from 0) of the curve stems from
Origin(k) == Survivor(clast.args.pabSuccess, k + 1) - 1

\* partial transform, lines 2601-2616: the X, Y and Z of the survivors
SurvivorsXYZ ==
    clast.args.cfg = "YES" /\ Successes(clast.args.pabSuccess) >= 1
    => /\ clast.res.err = "OGRERR_NONE"
       /\ curve.srs = "target"
       /\ curve.nPointCount = Successes(clast.args.pabSuccess)
       /\ \A k \in 0..(curve.nPointCount - 1) :
             /\ getXY(curve, k)[1] = Transformed(getXY(clast.pre, Origin(k))[1])
             /\ getXY(curve, k)[2] = Transformed(getXY(clast.pre, Origin(k))[2])
             /\ curve.flags.z => getZ(curve, k) = Transformed(getZ(clast.pre, Origin(k)))

\* partial transform: the M of the survivors, which Transform leaves alone
SurvivorsM ==
    clast.args.cfg = "YES" /\ Successes(clast.args.pabSuccess) >= 1
    => \A k \in 0..(curve.nPointCount - 1) :
          getM(curve, k) = getM(clast.pre, Origin(k))

\* C10: transform fails and leaves the points, the dimensionality and the
\* spatial reference of the curve as they were when a point fails and partial
\* reprojection is not enabled, or when no point of a curve that has points
\* succeeds; with partial reprojection enabled and a point that succeeds it
\* returns success and the curve holds exactly the points that succeeded,
\* transformed, in their order, with the target spatial reference.
C10_TransformPartialFailure ==
    clast.op = "transform" /\ clast.args.nofail
    => TransformFailureLeavesCurve /\ SurvivorsXYZ /\ SurvivorsM

(***************************************************************************)
(* Measures of a curve: get_Length, Value, getSubLine, segmentize,         *)
(* isClockwise.  geo holds a curve C and the last call on it.  Coordinates *)
(* are integers and the curves given have segments of integer length, so   *)
(* that sqrt is exact; a result of a division is kept as numerators over   *)
(* one denominator den.                                                    *)
(***************************************************************************)
MaxGeoPoints == 3       \* vertices of a curve given to the measures
MaxGeoX == 2            \* x of a vertex ranges over 0..MaxGeoX
MaxGeoY == 1            \* y of a vertex ranges over 0..MaxGeoY
MaxGeoZ == 1            \* z of a vertex ranges over 0..MaxGeoZ

\* sqrt of a square number
Sqrt(n) == CHOOSE r \in 0..n : r * r = n
IsSquare(n) == \E r \in 0..n : r * r = n

\* squared length of the segment from vertex i to vertex i + 1 (from 0)
SquareLength(C, i) ==
    (getXY(C, i + 1)[1] - getXY(C, i)[1]) * (getXY(C, i + 1)[1] - getXY(C, i)[1])
    + (getXY(C, i + 1)[2] - getXY(C, i)[2]) * (getXY(C, i + 1)[2] - getXY(C, i)[2])

\* dfSegLength of Value and get_Length
SegLength(C, i) == Sqrt(SquareLength(C, i))

\* get_Length: the sum of the lengths of the segments from vertex i on
RECURSIVE LengthFrom(_, _)
LengthFrom(C, i) ==
    IF i >= C.nPointCount - 1 THEN 0 ELSE SegLength(C, i) + LengthFrom(C, i + 1)

get_Length(C) == LengthFrom(C, 0)

\* a point that Value gives: numerators over den; seg is the segment it was
\* interpolated on, -1 for a vertex
ValuePoint(x, y, z, den, seg) == [x |-> x, y |-> y, z |-> z, den |-> den, seg |-> seg]

\* getPoint into a new point: Z is set for a 3D curve only
PointAt(C, i) ==
    ValuePoint(getXY(C, i)[1], getXY(C, i)[2],
               IF C.flags.z /\ C.padfZ.alloc THEN C.padfZ.a[i + 1] ELSE 0, 1, -1)

StartPoint(C) == PointAt(C, 0)
EndPoint(C) == PointAt(C, C.nPointCount - 1)

\* Value, lines 2124-2135: dfRatio = t / s on segment i
Interpolate(C, i, t, s) ==
    ValuePoint(getXY(C, i)[1] * (s - t) + getXY(C, i + 1)[1] * t,
               getXY(C, i)[2] * (s - t) + getXY(C, i + 1)[2] * t,
               IF C.flags.z THEN C.padfZ.a[i + 1] * (s - t) + C.padfZ.a[i + 2] * t ELSE 0,
               s, i)

\* Value, lines 2113-2141: the loop from segment i with dfLength accumulated
RECURSIVE ValueFrom(_, _, _, _)
ValueFrom(C, dfDistance, i, dfLength) ==
    IF i >= C.nPointCount - 1 THEN EndPoint(C)
    ELSE IF SegLength(C, i) > 0 /\ dfLength <= dfDistance
            /\ dfLength + SegLength(C, i) >= dfDistance
    THEN Interpolate(C, i, dfDistance - dfLength, SegLength(C, i))
    ELSE ValueFrom(C, dfDistance, i + 1, dfLength + SegLength(C, i))

Value(C, dfDistance) ==
    IF dfDistance < 0 THEN StartPoint(C) ELSE ValueFrom(C, dfDistance, 0, 0)

\* the curves given: vertices on a grid, every segment of integer length
GeoVertices(hasZ) ==
    [x : 0..MaxGeoX, y : 0..MaxGeoY, z : IF hasZ THEN 0..MaxGeoZ ELSE {0}]

\* setPoints and setM: vertex k (from 1) has measure 10 * k
MakeLine(pts, hasZ, hasM) ==
    [flags |-> [z |-> hasZ, m |-> hasM],
     nPointCount |-> Len(pts), m_nPointCapacity |-> Len(pts),
     paoPoints |-> [alloc |-> Len(pts) > 0, a |-> [k \in DOMAIN pts |-> <<pts[k].x, pts[k].y>>]],
     padfZ |-> IF hasZ THEN [alloc |-> TRUE, a |-> [k \in DOMAIN pts |-> pts[k].z]]
               ELSE NullArray,
     padfM |-> IF hasM THEN [alloc |-> TRUE, a |-> [k \in DOMAIN pts |-> 10 * k]]
               ELSE NullArray,
     srs |-> "none"]

GeoLines ==
    { C \in UNION { { MakeLine(pts, hasZ, hasM) :
                        pts \in UNION { [1..n -> GeoVertices(hasZ)] : n \in 0..MaxGeoPoints },
                        hasM \in BOOLEAN } : hasZ \in BOOLEAN } :
        \A i \in 0..(C.nPointCount - 2) : IsSquare(SquareLength(C, i)) }

GInit ==
    \E C \in GeoLines :
        geo = [C |-> C, den |-> 1, calls |-> 0, pre |-> C,
               op |-> "new", args |-> <<>>, res |-> <<>>]

GCall(op, args, res) == geo' = [geo EXCEPT !.op = op, !.args = args, !.res = res]

DoValue ==
    /\ geo.C.nPointCount >= 1
    /\ \E dfDistance \in (-1)..(get_Length(geo.C) + 1) :
          GCall("Value", [dfDistance |-> dfDistance], Value(geo.C, dfDistance))

\* the result of getSubLine: ok is FALSE for nullptr
SubLine(ok, pts) == [ok |-> ok, pts |-> pts]

\* getSubLine, lines 2350-2401: the loop that adds vertices from i on, with
\* dfLength accumulated, up to the point at dfDistanceTo
RECURSIVE AddPoints(_, _, _, _, _)
AddPoints(C, i, dfLength, dfDistanceTo, pts) ==
    IF i >= C.nPointCount - 1
    THEN SubLine(Len(pts) + 1 >= 2, pts \o << EndPoint(C) >>)
    ELSE IF SegLength(C, i) > 0 /\ dfLength <= dfDistanceTo
            /\ dfLength + SegLength(C, i) >= dfDistanceTo
    THEN SubLine(TRUE, pts \o << PointAt(C, i),
                                Interpolate(C, i, dfDistanceTo - dfLength, SegLength(C, i)) >>)
    ELSE AddPoints(C, i + 1, dfLength + SegLength(C, i), dfDistanceTo,
                   pts \o << PointAt(C, i) >>)

\* getSubLine, lines 2276-2347: the search of the segment of dfDistanceFrom
RECURSIVE FirstPoint(_, _, _, _, _)
FirstPoint(C, i, dfLength, dfDistanceFrom, dfDistanceTo) ==
    IF i >= C.nPointCount - 1 THEN AddPoints(C, i, dfLength, dfDistanceTo, <<>>)
    ELSE IF SegLength(C, i) > 0 /\ dfLength <= dfDistanceFrom
            /\ dfLength + SegLength(C, i) >= dfDistanceFrom
    THEN IF dfLength <= dfDistanceTo /\ dfLength + SegLength(C, i) >= dfDistanceTo
         THEN SubLine(TRUE,
                      << Interpolate(C, i, dfDistanceFrom - dfLength, SegLength(C, i)),
                         Interpolate(C, i, dfDistanceTo - dfLength, SegLength(C, i)) >>)
         ELSE AddPoints(C, i + 1, dfLength + SegLength(C, i), dfDistanceTo,
                        << Interpolate(C, i, dfDistanceFrom - dfLength, SegLength(C, i)) >>)
    ELSE FirstPoint(C, i + 1, dfLength + SegLength(C, i), dfDistanceFrom, dfDistanceTo)

\* getSubLine with bAsRatio = FALSE, lines 2221-2275: the distances are
\* clamped, then the first point is added
getSubLine(C, dfDistanceFrom, dfDistanceTo) ==
    LET dfFrom == Max(dfDistanceFrom, 0)
        dfTo == Min(dfDistanceTo, get_Length(C))
    IN  IF dfFrom > dfTo \/ dfFrom >= get_Length(C)
        THEN SubLine(FALSE, <<>>)
        ELSE IF dfFrom = 0
        THEN AddPoints(C, 0, 0, dfTo, << PointAt(C, 0) >>)
        ELSE FirstPoint(C, 0, 0, dfFrom, dfTo)

DoGetSubLine ==
    \E dfDistanceFrom, dfDistanceTo \in (-1)..(get_Length(geo.C) + 1) :
        GCall("getSubLine",
              [dfDistanceFrom |-> dfDistanceFrom, dfDistanceTo |-> dfDistanceTo],
              getSubLine(geo.C, dfDistanceFrom, dfDistanceTo))

GNext ==
    \/ DoValue
    \/ DoGetSubLine

GeoInit ==
    /\ GInit
    /\ layer = Idle /\ fs = Idle /\ wlast = Idle
    /\ rd = Idle /\ rlast = Idle /\ iter = Idle
    /\ dec = Idle /\ curve = Idle /\ clast = Idle /\ pair = Idle /\ batch = Idle
GeoNext == GNext /\ UNCHANGED <<wvars, rvars, dvars, cvars, pvars, bvars>>

SpecGeo == GeoInit /\ [][GeoNext]_vars

(***************************************************************************)
(* reversePoints and segmentize.  The coordinates of geo.C are in units of *)
(* 1 / geo.den, so that the points segmentize inserts stay integers; Z and *)
(* M are not scaled.  dfMaxLength is a fraction << numerator, denominator >>. *)
(***************************************************************************)
MaxSegmentize == 2      \* calls of segmentize in a behaviour
REL_EPSILON_LENGTH_SQUARE_INV == 100000     \* 1 / 1e-5
REL_EPSILON_ROUND_INV == 100                \* 1 / 1e-2
kMax == 134217728                           \* 2 << 26

\* the sequence s in the opposite order
Reversed(s) == [k \in DOMAIN s |-> s[Len(s) + 1 - k]]

reversePoints(C) ==
    [C EXCEPT !.paoPoints.a = Reversed(@),
              !.padfZ.a = IF C.padfZ.alloc THEN Reversed(@) ELSE @,
              !.padfM.a = IF C.padfM.alloc THEN Reversed(@) ELSE @]

DoubleToIntClamp(dfValue) ==
    IF dfValue >= IntMax THEN IntMax
    ELSE IF dfValue <= -IntMax - 1 THEN -IntMax - 1
    ELSE dfValue

\* segmentize, lines 2672-2673: the squared length of segment i exceeds the
\* square of dfMaxLength by more than the relative tolerance
TooLong(C, den, dfMaxLength, i) ==
    SquareLength(C, i) * dfMaxLength[2] * dfMaxLength[2]
        - dfMaxLength[1] * dfMaxLength[1] * den * den
    > (dfMaxLength[1] * dfMaxLength[1] * den * den) \div REL_EPSILON_LENGTH_SQUARE_INV

\* segmentize, lines 2675-2678: floor(sqrt(dfSquareDist / dfSquareMaxLength)
\* - REL_EPSILON_ROUND) for a segment that is too long, else no point
nIntermediatePoints(C, den, dfMaxLength, i) ==
    IF TooLong(C, den, dfMaxLength, i)
    THEN DoubleToIntClamp(
             (REL_EPSILON_ROUND_INV * SegLength(C, i) * dfMaxLength[2] - den * dfMaxLength[1])
             \div (REL_EPSILON_ROUND_INV * den * dfMaxLength[1]))
    ELSE 0

\* the number of points of the first pass before vertex i is counted
RECURSIVE nNewPointCount(_, _, _, _)
nNewPointCount(C, den, dfMaxLength, i) ==
    IF i = 0 THEN 0
    ELSE nNewPointCount(C, den, dfMaxLength, i - 1) + 1
         + nIntermediatePoints(C, den, dfMaxLength, i - 1)

\* the least common multiple of the numbers of parts of the segments from i
\* on: the factor that keeps the inserted points integers
RECURSIVE Parts(_, _, _, _)
Parts(C, den, dfMaxLength, i) ==
    IF i >= C.nPointCount - 1 THEN 1
    ELSE LET a == nIntermediatePoints(C, den, dfMaxLength, i) + 1
             b == Parts(C, den, dfMaxLength, i + 1)
         IN  CHOOSE m \in 1..(a * b) :
                 /\ m % a = 0 /\ m % b = 0
                 /\ \A k \in 1..(m - 1) : k % a # 0 \/ k % b # 0

\* vertex i and the points inserted after it, the inserted points with the Z
\* and M of the end vertex of their segment
NewPointsAtEndValues(C, den, dfMaxLength, parts, i) ==
    [j \in 1..(1 + (IF i = C.nPointCount - 1 THEN 0
                    ELSE nIntermediatePoints(C, den, dfMaxLength, i))) |->
        [xy |-> IF j = 1 THEN << parts * getXY(C, i)[1], parts * getXY(C, i)[2] >>
                ELSE << parts * getXY(C, i)[1]
                          + (j - 1)
                            * (parts \div (nIntermediatePoints(C, den, dfMaxLength, i) + 1))
                            * (getXY(C, i + 1)[1] - getXY(C, i)[1]),
                        parts * getXY(C, i)[2]
                          + (j - 1)
                            * (parts \div (nIntermediatePoints(C, den, dfMaxLength, i) + 1))
                            * (getXY(C, i + 1)[2] - getXY(C, i)[2]) >>,
         z |-> IF C.padfZ.alloc THEN C.padfZ.a[IF j = 1 THEN i + 1 ELSE i + 2] ELSE 0,
         m |-> IF C.padfM.alloc THEN C.padfM.a[IF j = 1 THEN i + 1 ELSE i + 2] ELSE 0]]

\* segmentize, lines 2731-2789: vertex i and the points inserted after it,
\* as << x, y >>, z, m
NewPointsAt(C, den, dfMaxLength, parts, i) ==
    [j \in 1..(1 + (IF i = C.nPointCount - 1 THEN 0
                    ELSE nIntermediatePoints(C, den, dfMaxLength, i))) |->
        [xy |-> IF j = 1 THEN << parts * getXY(C, i)[1], parts * getXY(C, i)[2] >>
                ELSE << parts * getXY(C, i)[1]
                          + (j - 1)
                            * (parts \div (nIntermediatePoints(C, den, dfMaxLength, i) + 1))
                            * (getXY(C, i + 1)[1] - getXY(C, i)[1]),
                        parts * getXY(C, i)[2]
                          + (j - 1)
                            * (parts \div (nIntermediatePoints(C, den, dfMaxLength, i) + 1))
                            * (getXY(C, i + 1)[2] - getXY(C, i)[2]) >>,
         z |-> IF C.padfZ.alloc THEN C.padfZ.a[i + 1] ELSE 0,
         m |-> IF C.padfM.alloc THEN C.padfM.a[i + 1] ELSE 0]]

RECURSIVE NewPoints(_, _, _, _, _)
NewPoints(C, den, dfMaxLength, parts, i) ==
    IF i >= C.nPointCount THEN <<>>
    ELSE NewPointsAt(C, den, dfMaxLength, parts, i)
         \o NewPoints(C, den, dfMaxLength, parts, i + 1)

\* the result of segmentize: the curve, the unit of its coordinates, bRet
Segmentized(ok, C, den) == [ok |-> ok, C |-> C, den |-> den]

\* segmentize, lines 2655-2806, on a curve that is not reversed first
SegmentizePasses(C, den, dfMaxLength) ==
    IF \E i \in 0..(C.nPointCount - 2) :
           /\ TooLong(C, den, dfMaxLength, i)
           /\ \/ nNewPointCount(C, den, dfMaxLength, i) + 1 > kMax
              \/ nIntermediatePoints(C, den, dfMaxLength, i) > kMax
    THEN Segmentized(FALSE, C, den)
    ELSE IF nNewPointCount(C, den, dfMaxLength, C.nPointCount - 1) + 1 = C.nPointCount
    THEN Segmentized(TRUE, C, den)
    ELSE LET parts == Parts(C, den, dfMaxLength, 0)
             new == NewPoints(C, den, dfMaxLength, parts, 0)
         IN  Segmentized(TRUE,
                 [C EXCEPT !.nPointCount = Len(new),
                           !.m_nPointCapacity = Len(new),
                           !.paoPoints.a = [k \in DOMAIN new |-> new[k].xy],
                           !.padfZ.a = IF C.padfZ.alloc
                                       THEN [k \in DOMAIN new |-> new[k].z] ELSE @,
                           !.padfM.a = IF C.padfM.alloc
                                       THEN [k \in DOMAIN new |-> new[k].m] ELSE @],
                 den * parts)

\* segmentize, lines 2632-2653
segmentize(C, den, dfMaxLength) ==
    IF dfMaxLength[1] <= 0 THEN Segmentized(FALSE, C, den)
    ELSE IF C.nPointCount < 2 THEN Segmentized(TRUE, C, den)
    ELSE IF \/ getXY(C, 0)[1] < getXY(C, C.nPointCount - 1)[1]
            \/ /\ getXY(C, 0)[1] = getXY(C, C.nPointCount - 1)[1]
               /\ getXY(C, 0)[2] < getXY(C, C.nPointCount - 1)[2]
    THEN LET r == SegmentizePasses(reversePoints(C), den, dfMaxLength)
         IN  Segmentized(r.ok, reversePoints(r.C), r.den)
    ELSE SegmentizePasses(C, den, dfMaxLength)

\* the values of dfMaxLength
MaxLengths == { << 0, 1 >>, << 1, 2 >>, << 1, 1 >>, << 101, 102 >>, << 2, 1 >> }

DoSegmentize ==
    /\ geo.calls < MaxSegmentize
    /\ \E dfMaxLength \in MaxLengths :
         LET r == segmentize(geo.C, geo.den, dfMaxLength)
         IN  geo' = [C |-> r.C, den |-> r.den, calls |-> geo.calls + 1, pre |-> geo.C,
                     op |-> "segmentize", args |-> [dfMaxLength |-> dfMaxLength],
                     res |-> [ok |-> r.ok, den |-> geo.den]]

DoReversePoints ==
    geo' = [geo EXCEPT !.C = reversePoints(geo.C), !.pre = geo.C,
                       !.op = "reversePoints", !.args = <<>>, !.res = <<>>]

SegNext ==
    /\ \/ DoSegmentize
       \/ DoReversePoints
    /\ UNCHANGED << wvars, rvars, dvars, cvars, pvars, bvars >>

SpecSeg == GeoInit /\ [][SegNext]_vars

(***************************************************************************)
(* isClockwise, on closed rings.                                           *)
(***************************************************************************)
MaxRingPoints == 5      \* points of a ring, the closing point included
EPSILON_INV == 100000   \* 1 / 1.0E-5

epsilonEqual(a, b) == (IF a >= b THEN a - b ELSE b - a) * EPSILON_INV < 1

\* isClockwise, lines 3290-3309: the lowest rightmost vertex among 0..i, and
\* whether another vertex has its coordinates
RECURSIVE Pivot(_, _)
Pivot(C, i) ==
    IF i = 0 THEN [v |-> 0, bUseFallback |-> FALSE]
    ELSE LET p == Pivot(C, i - 1)
         IN  IF \/ getXY(C, i)[2] < getXY(C, p.v)[2]
                \/ /\ getXY(C, i)[2] = getXY(C, p.v)[2]
                   /\ getXY(C, i)[1] > getXY(C, p.v)[1]
             THEN [v |-> i, bUseFallback |-> FALSE]
             ELSE IF getXY(C, i) = getXY(C, p.v)
             THEN [v |-> p.v, bUseFallback |-> TRUE]
             ELSE p

\* isClockwise, lines 3366-3375: the sum of the Green formula
RECURSIVE dfSumFrom(_, _)
dfSumFrom(C, i) ==
    IF i >= C.nPointCount - 1 THEN 0
    ELSE getXY(C, i)[1] * (getXY(C, i + 1)[2] - getXY(C, i - 1)[2]) + dfSumFrom(C, i + 1)

dfSum(C) ==
    getXY(C, 0)[1] * (getXY(C, 1)[2] - getXY(C, C.nPointCount - 1)[2])
    + dfSumFrom(C, 1)
    + getXY(C, C.nPointCount - 1)[1] * (getXY(C, 0)[2] - getXY(C, C.nPointCount - 2)[2])

\* the cross product with its terms exchanged
CrossProductExchanged(C, v, prev, next) ==
    (getXY(C, prev)[1] - getXY(C, v)[1]) * (getXY(C, next)[2] - getXY(C, v)[2])
    - (getXY(C, next)[1] - getXY(C, v)[1]) * (getXY(C, prev)[2] - getXY(C, v)[2])

\* isClockwise, lines 3330-3351: dx1 * dy0 - dx0 * dy1, with (dx0, dy0) to
\* the previous vertex and (dx1, dy1) to the following one
CrossProduct(C, v, prev, next) ==
    (getXY(C, next)[1] - getXY(C, v)[1]) * (getXY(C, prev)[2] - getXY(C, v)[2])
    - (getXY(C, prev)[1] - getXY(C, v)[1]) * (getXY(C, next)[2] - getXY(C, v)[2])

\* isClockwise: the answer, and whether the Green formula gave it
isClockwise(C) ==
    IF C.nPointCount < 2 THEN [cw |-> TRUE, green |-> FALSE]
    ELSE LET p == Pivot(C, Max(C.nPointCount - 2, 0))
             v == p.v
             prev == IF v - 1 < 0 THEN C.nPointCount - 1 - 1 ELSE v - 1
             next == IF v + 1 >= C.nPointCount - 1 THEN 0 ELSE v + 1
             bUseFallback ==
                 \/ p.bUseFallback
                 \/ /\ epsilonEqual(getXY(C, prev)[1], getXY(C, v)[1])
                    /\ epsilonEqual(getXY(C, prev)[2], getXY(C, v)[2])
                 \/ /\ epsilonEqual(getXY(C, next)[1], getXY(C, v)[1])
                    /\ epsilonEqual(getXY(C, next)[2], getXY(C, v)[2])
             crossproduct == CrossProduct(C, v, prev, next)
         IN  IF ~bUseFallback /\ crossproduct > 0 THEN [cw |-> FALSE, green |-> FALSE]
             ELSE IF ~bUseFallback /\ crossproduct < 0 THEN [cw |-> TRUE, green |-> FALSE]
             ELSE [cw |-> dfSum(C) < 0, green |-> TRUE]

\* the rings: closed curves of 2 to MaxRingPoints points
GeoRings ==
    { MakeLine(pts \o << pts[1] >>, FALSE, FALSE) :
        pts \in UNION { [1..n -> GeoVertices(FALSE)] : n \in 1..(MaxRingPoints - 1) } }

DoIsClockwise == GCall("isClockwise", <<>>, isClockwise(geo.C))

RingInit ==
    /\ \E C \in GeoRings :
         geo = [C |-> C, den |-> 1, calls |-> 0, pre |-> C,
                op |-> "new", args |-> <<>>, res |-> <<>>]
    /\ layer = Idle /\ fs = Idle /\ wlast = Idle
    /\ rd = Idle /\ rlast = Idle /\ iter = Idle
    /\ dec = Idle
    /\ curve = Idle /\ clast = Idle /\ pair = Idle /\ batch = Idle

RingNext ==
    /\ \/ DoIsClockwise
       \/ DoReversePoints
    /\ UNCHANGED << wvars, rvars, dvars, cvars, pvars, bvars >>

SpecRing == RingInit /\ [][RingNext]_vars

(***************************************************************************)
(* Properties of the measures.                                             *)
(***************************************************************************)
\* a point that Value gave is vertex i of the curve, in X, Y and Z
IsVertex(p, C, i) ==
    /\ p.x = p.den * getXY(C, i)[1]
    /\ p.y = p.den * getXY(C, i)[2]
    /\ p.z = p.den * getZ(C, i)

\* the length of the curve before vertex i
LengthBefore(C, i) == get_Length(C) - LengthFrom(C, i)

\* a point that Value gave is at distance d on a segment of non-zero length
\* that brackets d, with ratio (d - accumulated) / segment length
IsInterpolated(p, C, d) ==
    /\ p.seg >= 0 /\ p.seg < C.nPointCount - 1
    /\ SegLength(C, p.seg) > 0 /\ p.den = SegLength(C, p.seg)
    /\ LengthBefore(C, p.seg) <= d /\ d <= LengthBefore(C, p.seg + 1)
    /\ p.x = getXY(C, p.seg)[1] * p.den
               + (getXY(C, p.seg + 1)[1] - getXY(C, p.seg)[1]) * (d - LengthBefore(C, p.seg))
    /\ p.y = getXY(C, p.seg)[2] * p.den
               + (getXY(C, p.seg + 1)[2] - getXY(C, p.seg)[2]) * (d - LengthBefore(C, p.seg))
    /\ p.z = getZ(C, p.seg) * p.den
               + (getZ(C, p.seg + 1) - getZ(C, p.seg)) * (d - LengthBefore(C, p.seg))

\* C11: on a curve with a point, Value(d) is the first vertex in X, Y and Z
\* for d <= 0 and the last vertex for d >= get_Length(), also when leading or
\* trailing segments have length 0; for 0 < d < length it is the linear
\* interpolation on a bracketing segment of non-zero length.
C11_ValueEndsAndInterpolation ==
    geo.op = "Value"
    => /\ geo.args.dfDistance <= 0 => IsVertex(geo.res, geo.C, 0)
       /\ geo.args.dfDistance >= get_Length(geo.C)
          => IsVertex(geo.res, geo.C, geo.C.nPointCount - 1)
       /\ 0 < geo.args.dfDistance /\ geo.args.dfDistance < get_Length(geo.C)
          => IsInterpolated(geo.res, geo.C, geo.args.dfDistance)

\* a point of a result lies at distance d along the curve: on a segment of
\* non-zero length that brackets d, at ratio (d - accumulated) / length
OnCurveAt(p, C, d) ==
    \E s \in 0..(C.nPointCount - 2) :
        /\ SegLength(C, s) > 0
        /\ LengthBefore(C, s) <= d /\ d <= LengthBefore(C, s + 1)
        /\ p.x * SegLength(C, s) =
             p.den * (getXY(C, s)[1] * SegLength(C, s)
                      + (getXY(C, s + 1)[1] - getXY(C, s)[1]) * (d - LengthBefore(C, s)))
        /\ p.y * SegLength(C, s) =
             p.den * (getXY(C, s)[2] * SegLength(C, s)
                      + (getXY(C, s + 1)[2] - getXY(C, s)[2]) * (d - LengthBefore(C, s)))
        /\ p.z * SegLength(C, s) =
             p.den * (getZ(C, s) * SegLength(C, s)
                      + (getZ(C, s + 1) - getZ(C, s)) * (d - LengthBefore(C, s)))

\* the vertices whose distance along the curve is strictly between from and to
Between(C, from, to) ==
    { k \in 0..(C.nPointCount - 1) : from < LengthBefore(C, k) /\ LengthBefore(C, k) < to }

\* the points of pts after the first and before the last are the vertices of
\* inner, each once and in the order of the curve
InnerVertices(pts, C, inner) ==
    /\ Len(pts) = 2 + Cardinality(inner)
    /\ \A j \in 2..(Len(pts) - 1) :
         IsVertex(pts[j], C, (CHOOSE k \in inner : \A l \in inner : k <= l) + j - 2)

\* C12: when getSubLine(from, to) succeeds, with from clamped to >= 0 and to
\* to <= length, the result is the point at distance from, then every vertex
\* whose distance is strictly between from and to, in order, then the point
\* at distance to; no vertex is there twice, and there are at least 2 points.
C12_SubLineVertices ==
    geo.op = "getSubLine" /\ geo.res.ok
    => /\ Len(geo.res.pts) >= 2
       /\ OnCurveAt(geo.res.pts[1], geo.C, Max(geo.args.dfDistanceFrom, 0))
       /\ OnCurveAt(geo.res.pts[Len(geo.res.pts)], geo.C,
                    Min(geo.args.dfDistanceTo, get_Length(geo.C)))
       /\ InnerVertices(geo.res.pts, geo.C,
                        Between(geo.C, Max(geo.args.dfDistanceFrom, 0),
                                Min(geo.args.dfDistanceTo, get_Length(geo.C))))

\* C13: segmentize(L), L > 0, on the point-reversed copy of a curve gives the
\* reverse of what segmentize(L) gives on the curve, in X, Y, Z and M, for
\* open and closed curves, with and without Z and M.
C13_SegmentizeOfReverse ==
    geo.op = "segmentize" /\ geo.args.dfMaxLength[1] > 0
    => /\ geo.res.ok
       /\ segmentize(reversePoints(geo.pre), geo.res.den, geo.args.dfMaxLength)
          = Segmentized(TRUE, reversePoints(geo.C), geo.den)

\* the squared length of segment i of a curve in units of 1 / den is within
\* the relative tolerance of the square of dfMaxLength
WithinTolerance(C, den, dfMaxLength, i) ==
    SquareLength(C, i) * dfMaxLength[2] * dfMaxLength[2]
        - dfMaxLength[1] * dfMaxLength[1] * den * den
    <= (dfMaxLength[1] * dfMaxLength[1] * den * den) \div REL_EPSILON_LENGTH_SQUARE_INV

\* C14: after segmentize(L) succeeds no segment has a squared length over
\* L * L by more than the relative tolerance 1e-5, and a second segmentize(L)
\* leaves the number of vertices unchanged.
C14_SegmentizeBoundsSegments ==
    geo.op = "segmentize" /\ geo.res.ok
    => /\ \A i \in 0..(geo.C.nPointCount - 2) :
            WithinTolerance(geo.C, geo.den, geo.args.dfMaxLength, i)
       /\ segmentize(geo.C, geo.den, geo.args.dfMaxLength).C.nPointCount
          = geo.C.nPointCount

\* the cross product of (p -> q) and (p -> r): positive when r is on the left
Cross(p, q, r) == (q[1] - p[1]) * (r[2] - p[2]) - (q[2] - p[2]) * (r[1] - p[1])

\* a closed ring of at least 3 vertices, all distinct, that is convex and
\* counter-clockwise: every other vertex is strictly on the left of every edge
ConvexCCW(C) ==
    /\ C.nPointCount >= 4
    /\ getXY(C, 0) = getXY(C, C.nPointCount - 1)
    /\ \A i, k \in 0..(C.nPointCount - 2) :
         k # i /\ k # (i + 1) % (C.nPointCount - 1)
         => Cross(getXY(C, i), getXY(C, i + 1), getXY(C, k)) > 0

\* C15: on a closed convex ring of at least 3 distinct vertices, not
\* collinear, listed counter-clockwise from any start vertex, isClockwise()
\* is false, and true once reversePoints() has run; the answer comes from
\* the cross product and agrees with the sign of the sum of the Green formula.
C15_ClockwiseOfConvexRing ==
    geo.op = "isClockwise"
    => /\ ConvexCCW(geo.C)
          => geo.res = [cw |-> FALSE, green |-> FALSE] /\ dfSum(geo.C) > 0
       /\ ConvexCCW(reversePoints(geo.C))
          => geo.res = [cw |-> TRUE, green |-> FALSE] /\ dfSum(geo.C) < 0

\* isClockwise has answered TRUE on a convex ring that reversePoints reversed
C15_Witness ==
    /\ geo.op = "isClockwise" /\ geo.res.cw
    /\ geo.pre = reversePoints(geo.C) /\ ConvexCCW(geo.pre)
    /\ geo.C.nPointCount = MaxRingPoints

(***************************************************************************)
(* Two curve objects on one heap: copy, move and ownership of the arrays.  *)
(*                                                                         *)
(* pair.o[s] is the object in slot s: its flags, counts and spatial        *)
(* reference, and for each of paoPoints, padfZ and padfM the address of    *)
(* the block it points to (0 is the null pointer).  pair.heap maps the     *)
(* address of every allocated block to the elements of the block, so an    *)
(* object reads and writes its coordinates through its pointers.  A block  *)
(* that grows keeps its address.                                           *)
(***************************************************************************)
MaxPairOps    == 3      \* operations applied to the two objects
MaxPairPoints == 2      \* points of the curve the first object starts with

Slots  == {"a", "b"}
Planes == {"paoPoints", "padfZ", "padfM"}

OtherSlot(s) == IF s = "a" THEN "b" ELSE "a"

\* a slot that holds no object
NoObject ==
    [live |-> FALSE, flags |-> [z |-> FALSE, m |-> FALSE],
     nPointCount |-> 0, m_nPointCapacity |-> 0,
     paoPoints |-> 0, padfZ |-> 0, padfM |-> 0, srs |-> "none"]

\* the array a pointer refers to
Deref(p, heap) ==
    IF p = 0 THEN NullArray
    ELSE [alloc |-> TRUE, a |-> IF p \in DOMAIN heap THEN heap[p] ELSE <<>>]

\* the object o as a curve of the curve model
View(o, heap) ==
    [flags |-> o.flags,
     nPointCount |-> o.nPointCount, m_nPointCapacity |-> o.m_nPointCapacity,
     paoPoints |-> Deref(o.paoPoints, heap), padfZ |-> Deref(o.padfZ, heap),
     padfM |-> Deref(o.padfM, heap), srs |-> o.srs]

\* the k-th address that holds no block
Fresh(heap, k) ==
    CHOOSE x \in 1..(Cardinality(DOMAIN heap) + k) :
        /\ x \notin DOMAIN heap
        /\ Cardinality({y \in 1..x : y \notin DOMAIN heap}) = k

PlaneNo(p) == CASE p = "paoPoints" -> 1 [] p = "padfZ" -> 2 [] p = "padfM" -> 3

\* the blocks that the object o frees when it is destroyed or overwritten
Blocks(o) == {o[p] : p \in Planes} \ {0}

\* CPLFree of every block in the set
Free(heap, blocks) == [x \in DOMAIN heap \ blocks |-> heap[x]]

\* The object and the heap after a member function of the object o left it
\* as the curve C: an array that was null and is allocated gets a new
\* block, an allocated array keeps its block, a freed one gives it back.
Place(o, C, heap) ==
    LET at == [p \in Planes |->
                 IF ~C[p].alloc THEN 0
                 ELSE IF o[p] # 0 THEN o[p] ELSE Fresh(heap, PlaneNo(p))]
        freed == {o[p] : p \in {q \in Planes : ~C[q].alloc}} \ {0}
        dom == (DOMAIN heap \ freed) \cup ({at[p] : p \in Planes} \ {0})
    IN [o |-> [live |-> TRUE, flags |-> C.flags,
               nPointCount |-> C.nPointCount,
               m_nPointCapacity |-> C.m_nPointCapacity,
               paoPoints |-> at["paoPoints"], padfZ |-> at["padfZ"],
               padfM |-> at["padfM"], srs |-> C.srs],
        heap |-> [x \in dom |->
                    IF \E p \in Planes : at[p] = x
                    THEN C[CHOOSE p \in Planes : at[p] = x].a
                    ELSE heap[x]]]

\* memcpy of n elements of src to the head of arr; elements read beyond
\* the end of src hold anything
CopyIn(arr, src, n) ==
    [arr EXCEPT !.a = [i \in 1..Len(arr.a) |->
                         IF i > n THEN arr.a[i]
                         ELSE IF i <= Len(src.a) THEN src.a[i]
                         ELSE Junk]]

\* setPoints(int, const OGRRawPoint *, const double *, const double *),
\* lines 1077-1086
SetPointsXY(C, nPointsIn, paoPointsIn, al) ==
    LET R == setNumPoints(C, nPointsIn, FALSE, al)
    IN IF ~R.ok THEN R
       ELSE IF nPointsIn > 0
       THEN Ok([R.C EXCEPT !.paoPoints = CopyIn(@, paoPointsIn, nPointsIn)])
       ELSE R

\* lines 1090-1101; getCoordinateDimension() > 2 is the 3D flag
SetPointsZ(R, nPointsIn, padfZIn, al) ==
    IF ~R.ok THEN R
    ELSE IF ~padfZIn.alloc
    THEN (IF R.C.flags.z THEN Ok(Make2D(R.C)) ELSE R)
    ELSE LET Z == Make3D(R.C, al)
         IN IF ~Z.ok THEN Z
            ELSE IF Z.C.padfZ.alloc /\ nPointsIn > 0
            THEN Ok([Z.C EXCEPT !.padfZ = CopyIn(@, padfZIn, nPointsIn)])
            ELSE Z

\* lines 1106-1116
SetPointsM(R, nPointsIn, padfMIn, al) ==
    IF ~R.ok THEN R
    ELSE IF ~padfMIn.alloc
    THEN (IF R.C.flags.m THEN Ok(RemoveM(R.C)) ELSE R)
    ELSE LET M == AddM(R.C, al)
         IN IF ~M.ok THEN M
            ELSE IF M.C.padfM.alloc /\ nPointsIn > 0
            THEN Ok([M.C EXCEPT !.padfM = CopyIn(@, padfMIn, nPointsIn)])
            ELSE M

\* setPoints(int, const OGRRawPoint *, const double *, const double *)
setPointsArrays(C, nPointsIn, paoPointsIn, padfZIn, padfMIn, al) ==
    SetPointsM(SetPointsZ(SetPointsXY(C, nPointsIn, paoPointsIn, al),
                          nPointsIn, padfZIn, al),
               nPointsIn, padfMIn, al)

\* OGRGeometry(const OGRGeometry &): the new object takes the flags and the
\* spatial reference of the other
OGRGeometryCopy(other) ==
    [NewCurve EXCEPT !.flags = other.flags, !.srs = other.srs]

\* OGRSimpleCurve(const OGRSimpleCurve &)
CopyConstruct(other, al) ==
    IF other.nPointCount > 0
    THEN setPointsArrays(OGRGeometryCopy(other), other.nPointCount,
                         other.paoPoints, other.padfZ, other.padfM, al)
    ELSE Ok(OGRGeometryCopy(other))

\* OGRGeometry::operator=(const OGRGeometry &): empty(), then the spatial
\* reference and the flags of the other
OGRGeometryAssign(C, other, al) ==
    [setNumPoints(C, 0, TRUE, al).C EXCEPT !.srs = other.srs,
                                           !.flags = other.flags]

\* operator=(const OGRSimpleCurve &) on two different objects
CopyAssign(C, other, al) ==
    [setPointsArrays(OGRGeometryAssign(C, other, al), other.nPointCount,
                     other.paoPoints, other.padfZ, other.padfM, al)
       EXCEPT !.C.flags = other.flags]

\* a move that leaves its arrays with the object moved from
MovedFromKeepsArrays(o) == [o EXCEPT !.srs = "none"]

\* what a move leaves in the object moved from (lines 79-83, 152-156): the
\* base class moves the spatial reference away, the flags stay
MovedFrom(o) ==
    [o EXCEPT !.nPointCount = 0, !.m_nPointCapacity = 0,
              !.paoPoints = 0, !.padfZ = 0, !.padfM = 0, !.srs = "none"]

\* OGRSimpleCurve(OGRSimpleCurve &&): the new object
MoveConstruct(other) == [other EXCEPT !.live = TRUE]

\* operator=(OGRSimpleCurve &&) on two different objects: the object
\* assigned to (its own blocks are freed by the caller of this operator)
MoveAssign(o, other) ==
    [o EXCEPT !.srs = other.srs,
              !.nPointCount = other.nPointCount,
              !.m_nPointCapacity = other.m_nPointCapacity,
              !.paoPoints = other.paoPoints, !.padfZ = other.padfZ,
              !.padfM = other.padfM, !.flags = other.flags]

\* OGRLineString::TransferMembersAndDestroy: poDst afterwards
TransferMembersAndDestroy(poSrc, poDst) ==
    [poDst EXCEPT !.flags = [z |-> @.z \/ poSrc.flags.z,
                             m |-> @.m \/ poSrc.flags.m],
                  !.srs = poSrc.srs,
                  !.nPointCount = poSrc.nPointCount,
                  !.m_nPointCapacity = poSrc.m_nPointCapacity,
                  !.paoPoints = poSrc.paoPoints, !.padfZ = poSrc.padfZ,
                  !.padfM = poSrc.padfM]

\* the curve that n calls of the setPoint overload of the form build
RECURSIVE PairCurve(_, _)
PairCurve(form, n) ==
    IF n = 0 THEN NewCurve
    ELSE SetPointForm(PairCurve(form, n - 1), form, n - 1,
                      ArgPoint(n, [z |-> TRUE, m |-> TRUE]),
                      [fail |-> "none", junk |-> 0]).C

PairAllocs(sites) ==
    { [fail |-> f, junk |-> pair.junk] :
        f \in (IF pair.faults < MaxAllocFaults THEN sites ELSE {}) \cup {"none"} }

PInit ==
    \E form \in {"xy", "xyz", "xym", "xyzm"}, n \in 0..MaxPairPoints,
       junk \in {0, Junk} :
        LET P == Place(NoObject, PairCurve(form, n), <<>>)
            o == [a |-> P.o, b |-> NoObject]
        IN pair = [o |-> o, heap |-> P.heap, ops |-> 0, faults |-> 0,
                   junk |-> junk, op |-> "new", src |-> "a", dst |-> "a",
                   ok |-> TRUE, pre |-> [o |-> o, heap |-> P.heap]]

PCommit(op, src, dst, o, heap, ok, al) ==
    pair' = [o |-> o, heap |-> heap, ops |-> pair.ops + 1,
             faults |-> pair.faults + (IF al.fail = "none" THEN 0 ELSE 1),
             junk |-> pair.junk, op |-> op, src |-> src, dst |-> dst,
             ok |-> ok, pre |-> [o |-> pair.o, heap |-> pair.heap]]

NoAlloc == [fail |-> "none", junk |-> 0]

\* OGRLineString dst(src)
DoCopyConstruct ==
    /\ pair.ops < MaxPairOps
    /\ \E src \in Slots, al \in PairAllocs(GrowSites) :
         LET dst == OtherSlot(src)
             R == CopyConstruct(View(pair.o[src], pair.heap), al)
             P == Place(NoObject, R.C, pair.heap)
         IN /\ pair.o[src].live /\ ~pair.o[dst].live
            /\ al.fail # "none" => ~R.ok
            /\ PCommit("copy", src, dst, [pair.o EXCEPT ![dst] = P.o],
                       P.heap, R.ok, al)

\* dst = src
DoCopyAssign ==
    /\ pair.ops < MaxPairOps
    /\ \E src \in Slots, al \in PairAllocs(GrowSites) :
         LET dst == OtherSlot(src)
             R == CopyAssign(View(pair.o[dst], pair.heap),
                             View(pair.o[src], pair.heap), al)
             P == Place(pair.o[dst], R.C, pair.heap)
         IN /\ pair.o[src].live /\ pair.o[dst].live
            /\ al.fail # "none" => ~R.ok
            /\ PCommit("copy=", src, dst, [pair.o EXCEPT ![dst] = P.o],
                       P.heap, R.ok, al)

\* OGRLineString dst(std::move(src))
DoMoveConstruct ==
    /\ pair.ops < MaxPairOps
    /\ \E src \in Slots :
         LET dst == OtherSlot(src)
         IN /\ pair.o[src].live /\ ~pair.o[dst].live
            /\ PCommit("move", src, dst,
                       [pair.o EXCEPT ![dst] = MoveConstruct(pair.o[src]),
                                      ![src] = MovedFrom(pair.o[src])],
                       pair.heap, TRUE, NoAlloc)

\* dst = std::move(src): CPLFree of the arrays of dst at lines 145-149
DoMoveAssign ==
    /\ pair.ops < MaxPairOps
    /\ \E src \in Slots :
         LET dst == OtherSlot(src)
         IN /\ pair.o[src].live /\ pair.o[dst].live
            /\ PCommit("move=", src, dst,
                       [pair.o EXCEPT ![dst] = MoveAssign(pair.o[dst], pair.o[src]),
                                      ![src] = MovedFrom(pair.o[src])],
                       Free(pair.heap, Blocks(pair.o[dst])), TRUE, NoAlloc)

\* TransferMembersAndDestroy(src, dst): the arrays that dst had are not
\* freed, src is deleted with null arrays
DoTransferMembersAndDestroy ==
    /\ pair.ops < MaxPairOps
    /\ \E src \in Slots :
         LET dst == OtherSlot(src)
         IN /\ pair.o[src].live /\ pair.o[dst].live
            /\ PCommit("transfer", src, dst,
                       [pair.o EXCEPT ![dst] = TransferMembersAndDestroy(pair.o[src], pair.o[dst]),
                                      ![src] = NoObject],
                       pair.heap, TRUE, NoAlloc)

\* ~OGRSimpleCurve(), lines 92-97
DoDestroy ==
    /\ pair.ops < MaxPairOps
    /\ \E s \in Slots :
         /\ pair.o[s].live /\ pair.o[OtherSlot(s)].live
         /\ PCommit("delete", s, s, [pair.o EXCEPT ![s] = NoObject],
                    Free(pair.heap, Blocks(pair.o[s])), TRUE, NoAlloc)

\* dst.setPoint(i, &point), the point having the dimensions of the curve
DoPairSetPoint ==
    /\ pair.ops < MaxPairOps
    /\ \E dst \in Slots, i \in 0..MaxPairPoints, al \in PairAllocs(GrowSites) :
         LET C == View(pair.o[dst], pair.heap)
             R == setPointP(C, i, ArgPoint(MaxPairPoints + pair.ops + 1, C.flags), al)
             P == Place(pair.o[dst], R.C, pair.heap)
         IN /\ pair.o[dst].live
            /\ al.fail # "none" => ~R.ok
            /\ PCommit("setPoint", dst, dst, [pair.o EXCEPT ![dst] = P.o],
                       P.heap, R.ok, al)

PNext ==
    \/ DoCopyConstruct
    \/ DoCopyAssign
    \/ DoMoveConstruct
    \/ DoMoveAssign
    \/ DoTransferMembersAndDestroy
    \/ DoDestroy
    \/ DoPairSetPoint

PairInit ==
    /\ PInit
    /\ layer = Idle /\ fs = Idle /\ wlast = Idle
    /\ rd = Idle /\ rlast = Idle /\ iter = Idle
    /\ dec = Idle /\ curve = Idle /\ clast = Idle /\ geo = Idle /\ batch = Idle
PairNext == PNext /\ UNCHANGED <<wvars, rvars, dvars, cvars, gvars, bvars>>

SpecPair == PairInit /\ [][PairNext]_vars

(***************************************************************************)
(* Properties of copy and move.                                            *)
(***************************************************************************)
\* the pointers of the objects: slot, plane and address
Pointers(o) ==
    {<<s, p, o[s][p]>> : s \in Slots, p \in Planes} \ {<<s, p, 0>> : s \in Slots, p \in Planes}

\* no block is pointed to twice, and every pointer refers to a block
SingleOwner(o, heap) ==
    \A x \in Pointers(o), y \in Pointers(o) :
        /\ x[3] \in DOMAIN heap
        /\ x[3] = y[3] => x = y

\* the curve in slot s now, and before the last operation
Now(s) == View(pair.o[s], pair.heap)
Before(s) == View(pair.pre.o[s], pair.pre.heap)

SameCurve(C, D) ==
    /\ C.nPointCount = D.nPointCount
    /\ C.flags = D.flags
    /\ Vertices(C) = Vertices(D)

\* a copy whose allocations succeeded left the target equal to the source
CopyIsEqual ==
    pair.op \in {"copy", "copy="} /\ pair.ok
    => SameCurve(Now(pair.dst), Now(pair.src))

\* a mutation of one object leaves the other as it was
MutationIsPrivate ==
    pair.op = "setPoint" /\ pair.o[OtherSlot(pair.dst)].live
    => SameCurve(Now(OtherSlot(pair.dst)), Before(OtherSlot(pair.dst)))

\* a move gave the target the points of the source and emptied the source
MoveTransfers ==
    pair.op \in {"move", "move="}
    => /\ SameCurve(Now(pair.dst), Before(pair.src))
       /\ pair.o[pair.src].nPointCount = 0
       /\ pair.o[pair.src].m_nPointCapacity = 0
       /\ \A p \in Planes : pair.o[pair.src][p] = 0

C19_WitnessMove ==
    /\ pair.op \in {"move", "move="}
    /\ pair.o[pair.dst].nPointCount > 0 /\ pair.o[pair.dst].padfZ # 0

(***************************************************************************)
(* The Z and M arrays against the flags.                                   *)
(***************************************************************************)
\* the Z array is allocated exactly when the 3D flag is set, the M array
\* exactly when the measured flag is set, and every allocated array has
\* room for m_nPointCapacity elements
PlanesMatchFlags(C) ==
    /\ C.padfZ.alloc <=> C.flags.z
    /\ C.padfM.alloc <=> C.flags.m
    /\ \A p \in Planes : C[p].alloc => Len(C[p].a) >= C.m_nPointCapacity

\* C20: in every state reachable by curve operations, operations in which
\* an allocation fails included, the Z array is allocated if and only if
\* the Z flag is set, and likewise for M; no flag is set with a null array,
\* and every allocated array has room for the recorded capacity.
C20_PlanesMatchFlags == PlanesMatchFlags(curve)

(***************************************************************************)
(* Failing calls of the curve.                                             *)
(***************************************************************************)
FailedGrow ==
    clast.op \in {"setPoint", "addPoint", "setNumPoints"} /\ ~clast.res.ok

\* C21: when setNumPoints or an overload of setPoint or addPoint returns
\* false, the point count, the capacity, the flags and the coordinates of
\* the points are those before the call; only the arrays of a curve whose
\* count was 0 may have been released (the capacity is then 0).
C21_FailureLeavesCurve ==
    FailedGrow
    => /\ curve.nPointCount = clast.pre.nPointCount
       /\ curve.flags = clast.pre.flags
       /\ Vertices(curve) = Vertices(clast.pre)
       /\ \/ curve.m_nPointCapacity = clast.pre.m_nPointCapacity
          \/ clast.pre.nPointCount = 0 /\ curve.m_nPointCapacity = 0

(***************************************************************************)
(* The feature count of a writer among reading calls.                      *)
(***************************************************************************)
\* the number of cells of type t in a file
CellsOf(file, t) == Cardinality({i \in 1..Len(file) : file[i].t = t})

\* the file that createFeature writes to
FirstPass(L, F) == IF L.idx THEN F.temp ELSE F.dest

\* every call on an open writer leaves m_featuresCount as it was, but a
\* createFeature that succeeds adds one
CountFollowsCreates ==
    wlast.op # "Create" /\ wlast.pre.layer.m_create
    => layer.m_featuresCount =
          wlast.pre.layer.m_featuresCount
          + (IF wlast.op = "createFeature" /\ wlast.ret = "OGRERR_NONE" THEN 1 ELSE 0)

\* C22: while a layer is open for writing, among createFeature and reading
\* calls on it, the feature count is the number of createFeature calls that
\* succeeded and, with an index, the number of index entries; with no
\* failing file call the header is written once, and Close records every
\* feature that was written.
C22_CountAmongReads ==
    /\ CountFollowsCreates
    /\ layer.m_create /\ layer.idx
         => Len(layer.m_featureItems) = layer.m_featuresCount
    /\ layer.m_create /\ wlast.faults = 0
         => CellsOf(FirstPass(layer, fs), "M") <= 1
    /\ ( /\ wlast.op = "Close" /\ ~ClosedWriterCall /\ wlast.faults = 0
         /\ layer.idx \/ layer.seekable
         /\ HasHeader(fs.dest) )
         => HeaderOf(fs.dest).count
               = CellsOf(FirstPass(wlast.pre.layer, wlast.pre.fs), "S")

(***************************************************************************)
(* Reading a file in batches (GetNextArrowArray) and by rows               *)
(* (GetNextFeature), without filter.                                       *)
(*                                                                         *)
(* batch.file is the sequence of the records of the file; a record has     *)
(* the size wkb of its geometry as WKB, the length str of the value of its *)
(* string column, and bad: "no" for a well-formed record, "geom" for one   *)
(* whose geometry cannot be read, "prop" for one whose property stream     *)
(* names a column that does not exist.  Offsets count records: m_offset    *)
(* and fpos, the position of m_poFp, are numbers of records before the     *)
(* position.  A returned feature is the number of the record it was        *)
(* decoded from.                                                           *)
(***************************************************************************)
MaxBatchRecords == 3    \* records of a file
MaxBatchCalls   == 3    \* calls on a reader
MaxBatchSize    == 2    \* sHelper.m_nMaxBatchSize
MemLimit        == 2    \* OGRArrowArrayHelper::GetMemLimit()

BatchRecords ==
    [wkb : 1..MemLimit, str : 1..MemLimit, bad : {"no"}]
        \cup [wkb : {MemLimit}, str : {1}, bad : {"geom", "prop"}]

BatchFiles == UNION { [1..n -> BatchRecords] : n \in 0..MaxBatchRecords }

\* lines 1625-1631 and 1948-1954: the value does not fit after what the
\* column of the batch already holds
DoesNotFit(len, nCurLength) == len <= MemLimit /\ len > MemLimit - nCurLength

EmptyBatch == [feats |-> <<>>, wkb |-> 0, str |-> 0]

\* the position the next record is read at: a seek to m_offset before the
\* first feature (lines 1527-1533), else where the last read ended
ReadPosition(S) == IF S.m_featuresPos = 0 THEN S.m_offset ELSE S.fpos

\* GetNextArrowArray, the loop of lines 1502-1998.  B holds the features of
\* the batch and the lengths of its WKB and string columns; the result
\* names how the loop was left: "full" by its condition, "eof" by a break,
\* "cut" by goto after_loop, "error" by goto error.
RECURSIVE BatchLoop(_, _, _)
BatchLoop(file, S, B) ==
    IF Len(B.feats) >= MaxBatchSize THEN [S |-> S, B |-> B, end |-> "full"]
    ELSE IF S.m_featuresCount > 0 /\ S.m_featuresPos >= S.m_featuresCount
    THEN [S |-> S, B |-> B, end |-> "eof"]
    ELSE IF ReadPosition(S) >= Len(file)
    THEN [S |-> [S EXCEPT !.fpos = ReadPosition(S)], B |-> B, end |-> "eof"]
    ELSE LET rec == file[ReadPosition(S) + 1]
             S1 == [S EXCEPT !.fpos = ReadPosition(S) + 1, !.m_offset = @ + 1]
         IN IF rec.bad = "geom" THEN [S |-> S1, B |-> B, end |-> "error"]
            ELSE IF Len(B.feats) > 0 /\ DoesNotFit(rec.wkb, B.wkb)
            THEN [S |-> S1, B |-> B, end |-> "cut"]
            ELSE IF rec.bad = "prop" THEN [S |-> S1, B |-> B, end |-> "error"]
            ELSE IF Len(B.feats) > 0 /\ DoesNotFit(rec.str, B.str)
            THEN [S |-> S1, B |-> B, end |-> "cut"]
            ELSE BatchLoop(file, [S1 EXCEPT !.m_featuresPos = @ + 1],
                           [feats |-> Append(B.feats, ReadPosition(S)),
                            wkb |-> B.wkb + rec.wkb, str |-> B.str + rec.str])

\* lines 1999-2042: after_loop sets m_bEOF when bEOFOrError is set, which it
\* is unless the last pass of the loop reached its end; error clears the
\* array and returns errorErrno
AfterLoop(S, L) ==
    IF L.end = "error"
    THEN [S |-> L.S, ret |-> "EIO", feats |-> <<>>, end |-> L.end,
          iFeat |-> Len(L.B.feats)]
    ELSE [S |-> [L.S EXCEPT !.m_bEOF = @ \/ L.end # "full"],
          ret |-> "0", feats |-> L.B.feats, end |-> L.end,
          iFeat |-> Len(L.B.feats)]

\* GetNextArrowArray, lines 1449-2042, on a reader without filter
GetNextArrowArray(file, S) ==
    IF S.m_bEOF \/ (S.m_featuresCount > 0 /\ S.m_featuresPos >= S.m_featuresCount)
    THEN [S |-> S, ret |-> "0", feats |-> <<>>, end |-> "ended", iFeat |-> 0]
    ELSE AfterLoop(S, BatchLoop(file, S, EmptyBatch))

\* GetNextFeature, lines 989-1036, with parseFeature, lines 1067-1170, on a
\* reader without filter: at the end of the file parseFeature returns
\* OGRERR_NONE and VSIFEofL ends the iteration
GetNextFeatureRow(file, S) ==
    IF S.m_featuresCount > 0 /\ S.m_featuresPos >= S.m_featuresCount
    THEN [S |-> S, ret |-> "nullptr", feats |-> <<>>, end |-> "ended", iFeat |-> 0]
    ELSE IF ReadPosition(S) >= Len(file)
    THEN [S |-> [S EXCEPT !.fpos = ReadPosition(S)], ret |-> "nullptr",
          feats |-> <<>>, end |-> "eof", iFeat |-> 0]
    ELSE IF file[ReadPosition(S) + 1].bad # "no"
    THEN [S |-> [S EXCEPT !.fpos = ReadPosition(S) + 1, !.m_offset = @ + 1],
          ret |-> "nullptr", feats |-> <<>>, end |-> "error", iFeat |-> 0]
    ELSE [S |-> [S EXCEPT !.fpos = ReadPosition(S) + 1, !.m_offset = @ + 1,
                          !.m_featuresPos = @ + 1],
          ret |-> "feature", feats |-> <<ReadPosition(S)>>, end |-> "full",
          iFeat |-> 1]

BInit ==
    \E file \in BatchFiles, known \in BOOLEAN :
        batch = [file |-> file,
                 S |-> [m_featuresCount |-> IF known THEN Len(file) ELSE 0,
                        m_featuresPos |-> 0, m_offset |-> 0, fpos |-> 0,
                        m_bEOF |-> FALSE],
                 calls |-> 0, op |-> "Open", ret |-> "0", feats |-> <<>>,
                 end |-> "full", iFeat |-> 0, delivered |-> <<>>,
                 rows |-> FALSE]

\* the state after a call that returned r
BCommit(op, r) ==
    batch' = [file |-> batch.file, S |-> r.S, calls |-> batch.calls + 1,
              op |-> op, ret |-> r.ret, feats |-> r.feats, end |-> r.end,
              iFeat |-> r.iFeat, delivered |-> batch.delivered \o r.feats,
              rows |-> batch.rows \/ op = "GetNextFeature"]

DoGetNextArrowArrayBatch ==
    /\ batch.calls < MaxBatchCalls
    /\ BCommit("GetNextArrowArray", GetNextArrowArray(batch.file, batch.S))

DoGetNextFeatureRow ==
    /\ batch.calls < MaxBatchCalls
    /\ BCommit("GetNextFeature", GetNextFeatureRow(batch.file, batch.S))

BNext == DoGetNextArrowArrayBatch \/ DoGetNextFeatureRow

BatchInit ==
    /\ BInit
    /\ layer = Idle /\ fs = Idle /\ wlast = Idle
    /\ rd = Idle /\ rlast = Idle /\ iter = Idle
    /\ dec = Idle /\ curve = Idle /\ clast = Idle /\ geo = Idle /\ pair = Idle
BatchNext == BNext /\ UNCHANGED <<wvars, rvars, dvars, cvars, gvars, pvars>>

SpecBatch == BatchInit /\ [][BatchNext]_vars

\* the file of the reader holds no malformed record
WellFormed == \A i \in 1..Len(batch.file) : batch.file[i].bad = "no"

\* the last call was a batch call that left its loop at the memory ceiling
CutShort == batch.op = "GetNextArrowArray" /\ batch.end = "cut"

\* C23: a reader whose features are fetched by batch calls only delivers
\* the records of the file in order, each once; a batch cut short at the
\* memory ceiling holds the features decoded before the one in progress,
\* leaves the stream not ended, and leaves the reader where the next call
\* decodes the feature in progress; and when a batch call on a well-formed
\* file returns an empty batch, every record has been delivered.
C23_CutBatchResumes ==
    ~batch.rows
    => /\ \A i \in 1..Len(batch.delivered) : batch.delivered[i] = i - 1
       /\ CutShort
          => /\ batch.feats # <<>>
             /\ ~batch.S.m_bEOF
             /\ ReadPosition(batch.S) = Len(batch.delivered)
       /\ (batch.op = "GetNextArrowArray" /\ batch.ret = "0"
             /\ batch.feats = <<>> /\ WellFormed)
          => Len(batch.delivered) = Len(batch.file)

\* C24: a batch call that meets a malformed record after it decoded
\* k >= 1 features returns a batch of those k features and no error; a
\* row call that meets a malformed record returns no feature.
C24_MalformedRecord ==
    /\ (batch.op = "GetNextArrowArray" /\ batch.end = "error" /\ batch.iFeat >= 1)
       => batch.ret = "0" /\ Len(batch.feats) = batch.iFeat
    /\ (batch.op = "GetNextFeature" /\ batch.end = "error")
       => batch.ret = "nullptr" /\ batch.feats = <<>>

\* the row half of C24 alone
RowFailsWhole ==
    (batch.op = "GetNextFeature" /\ batch.end = "error")
    => batch.ret = "nullptr" /\ batch.feats = <<>>

\* C25: between the first successful createFeature and Close, CreateField
\* fails and leaves the columns as they are; before the first feature it
\* succeeds and adds a column while the number of columns is at most
\* MaxColumns.
C25_FieldsFrozen ==
    (wlast.op = "CreateField" /\ wlast.closes = 0)
    => IF wlast.pre.layer.m_featuresCount > 0
       THEN wlast.ret = "OGRERR_FAILURE"
            /\ layer.nFields = wlast.pre.layer.nFields
       ELSE wlast.pre.layer.nFields <= MaxColumns
            => wlast.ret = "OGRERR_NONE"
               /\ layer.nFields = wlast.pre.layer.nFields + 1

\* the second half of C25 alone
FieldAddedBeforeFirstFeature ==
    (wlast.op = "CreateField" /\ wlast.closes = 0
        /\ wlast.pre.layer.m_featuresCount = 0)
    => wlast.ret = "OGRERR_NONE" /\ layer.nFields = wlast.pre.layer.nFields + 1

(***************************************************************************)
(* The copy of the records at Close with an index (CreateFinalFile,        *)
(* lines 653-775).                                                         *)
(***************************************************************************)
\* lines 680-685: the batch by increasing source offset
RECURSIVE SortBySource(_, _)
SortBySource(items, bt) ==
    IF bt = <<>> THEN <<>>
    ELSE LET k == CHOOSE k \in 1..Len(bt) :
                    \A j \in 1..Len(bt) :
                        items[bt[k].featureIdx].offset
                            <= items[bt[j].featureIdx].offset
         IN << bt[k] >>
            \o SortBySource(items, SubSeq(bt, 1, k - 1)
                                   \o SubSeq(bt, k + 1, Len(bt)))

\* lines 688-702: each record of the batch is read from the temporary file
\* to its place in m_featureBuf
RECURSIVE ReadIntoBuffer(_, _, _, _)
ReadIntoBuffer(temp, items, bt, buf) ==
    IF bt = <<>> THEN buf
    ELSE ReadIntoBuffer(temp, items, Tail(bt),
            [j \in DOMAIN buf |->
                IF /\ j > Head(bt).offsetInBuffer
                   /\ j <= Head(bt).offsetInBuffer
                            + items[Head(bt).featureIdx].size
                THEN temp[items[Head(bt).featureIdx].offset
                          + j - Head(bt).offsetInBuffer]
                ELSE buf[j]])

\* a flush that would lay the records of the batch in the buffer in the
\* order it read them: the variant C26 is checked against
FilledBufferInSourceOrder(temp, items, bt, buf) ==
    LET sorted == SortBySource(items, bt)
        cells == ReadBatch([temp |-> temp],
                           [b \in 1..Len(sorted) |-> items[sorted[b].featureIdx]])
    IN [j \in DOMAIN buf |-> IF j <= Len(cells) THEN cells[j] ELSE buf[j]]

\* flushBatch, lines 677-702: m_featureBuf after the reads of a batch
FilledBuffer(temp, items, bt, buf) ==
    ReadIntoBuffer(temp, items, SortBySource(items, bt), buf)

\* lines 718-742: the cells written to the destination by the batch
\* strategy from record i on, with the batch, the fill of the buffer and
\* the buffer as they are before record i
RECURSIVE CopyBatched(_, _, _, _, _, _, _)
CopyBatched(temp, items, nFeatures, i, bt, offsetInBuffer, buf) ==
    IF i > nFeatures
    THEN SubSeq(FilledBuffer(temp, items, bt, buf), 1, offsetInBuffer)
    ELSE IF offsetInBuffer + items[i].size > Len(buf)
    THEN SubSeq(FilledBuffer(temp, items, bt, buf), 1, offsetInBuffer)
         \o CopyBatched(temp, items, nFeatures, i + 1,
                        << [featureIdx |-> i, offsetInBuffer |-> 0] >>,
                        items[i].size,
                        FilledBuffer(temp, items, bt, buf))
    ELSE CopyBatched(temp, items, nFeatures, i + 1,
                     Append(bt, [featureIdx |-> i,
                                    offsetInBuffer |-> offsetInBuffer]),
                     offsetInBuffer + items[i].size, buf)

\* the batch strategy with a buffer of nMaxBufferSize cells (lines 661-667)
BatchStrategy(temp, items, nFeatures, nMaxBufferSize) ==
    CopyBatched(temp, items, nFeatures, 1, <<>>, 0,
                [j \in 1..nMaxBufferSize |-> [t |-> "0"]])

\* the last call was a Close that finalized a writer with an index and at
\* least one feature, and returned CE_None
IndexedClose ==
    /\ wlast.op = "Close" /\ wlast.ret = "CE_None"
    /\ wlast.pre.layer.m_create /\ wlast.pre.layer.idx
    /\ wlast.pre.layer.m_featuresCount >= 1

\* the records of a file in file order: each starts at a size cell
RecordsOf(file) ==
    LET starts == SelectSeq([i \in 1..Len(file) |-> i],
                            LAMBDA i : file[i].t = "S")
    IN [r \in 1..Len(starts) |->
           SubSeq(file, starts[r], starts[r] + file[starts[r]].n)]

\* the cells of feature records in a file, in file order
BodiesOf(file) == SelectSeq(file, LAMBDA c : c.t \in {"S", "F"})

RECURSIVE SumSizes(_)
SumSizes(items) ==
    IF items = <<>> THEN 0 ELSE Head(items).size + SumSizes(Tail(items))

RECURSIVE Concat(_)
Concat(seqs) == IF seqs = <<>> THEN <<>> ELSE Head(seqs) \o Concat(Tail(seqs))

\* the entry e of the sorted index is the entry j written in the first pass
SameEntry(e, j) ==
    /\ j \in 1..Len(wlast.pre.layer.m_featureItems)
    /\ [e EXCEPT !.newOffset = 0] = wlast.pre.layer.m_featureItems[j]

\* the number of the first-pass entry that became entry k of the sorted index
EntryOf(k) == CHOOSE j \in 1..Len(layer.m_featureItems) :
                  SameEntry(layer.m_featureItems[k], j)

\* C26: after a Close with an index and n >= 1 features, the index entries
\* are the entries of the first pass in Hilbert order, the offset of each is
\* the sum of the sizes of the entries before it, the feature records of
\* the destination are the records of the first pass in the order of the
\* entries, and the batch strategy writes the cells that copying the
\* records one at a time writes, for every buffer from the size of the
\* largest record up to the size of all records.
C26_SortedCopy ==
    IndexedClose
    => /\ Len(layer.m_featureItems) = Len(wlast.pre.layer.m_featureItems)
       /\ \A j \in 1..Len(layer.m_featureItems) :
             \E k \in 1..Len(layer.m_featureItems) :
                 SameEntry(layer.m_featureItems[k], j)
       /\ \A k \in 1..Len(layer.m_featureItems) - 1 :
             HilbertKey(layer.m_featureItems[k].box)
                 >= HilbertKey(layer.m_featureItems[k + 1].box)
       /\ \A k \in 1..Len(layer.m_featureItems) :
             layer.m_featureItems[k].newOffset
                 = SumSizes(SubSeq(layer.m_featureItems, 1, k - 1))
       /\ BodiesOf(fs.dest)
             = Concat([k \in 1..Len(layer.m_featureItems) |->
                          RecordsOf(wlast.pre.fs.temp)[EntryOf(k)]])
       /\ \A nMaxBufferSize \in wlast.pre.layer.m_maxFeatureSize
                                   ..SumSizes(layer.m_featureItems) :
             BatchStrategy(wlast.pre.fs.temp, layer.m_featureItems,
                           wlast.pre.layer.m_featuresCount, nMaxBufferSize)
                 = ReadBatch(wlast.pre.fs, layer.m_featureItems)

\* a Close that copied two records whose Hilbert order is not the order
\* they were written in
C26_Witness ==
    /\ IndexedClose
    /\ Len(layer.m_featureItems) = 2
    /\ layer.m_featureItems[1].offset > layer.m_featureItems[2].offset
    /\ layer.m_featureItems[1].size # layer.m_featureItems[2].size
    /\ BodiesOf(fs.dest) # <<>>

(***************************************************************************)
(* The bytes of a property stream (parseFeature, lines 1174-1443).         *)
(*                                                                         *)
(* dec.data is the stream, a sequence of bytes; a parse P has the cursor   *)
(* offset, the result rc ("RUNNING" while the loop runs), the flags set of *)
(* the fields that hold a value, the last column index i read, the reads   *)
(* made (at: bytes before the first byte read, w: bytes read) and marks,   *)
(* the cursor at the start of each tuple.                                  *)
(***************************************************************************)
MaxStreamBytes == 9     \* bytes of a property stream

\* the values of a byte of a stream: they give the column indexes 0, 1, 256
\* and 257 and the lengths 0, 1 and lengths beyond every stream
ByteValues == {0, 1}

ByteStreams == UNION { [1..n -> ByteValues] : n \in 0..MaxStreamBytes }

\* the column types the streams are decoded against
ByteColumnTypes == {"Bool", "Short", "String", "DateTime"}

\* the unsigned number in the w bytes after offset, CPL_LSBPTR16 / 32
RECURSIVE LittleEndian(_, _, _)
LittleEndian(data, offset, w) ==
    IF w = 0 THEN 0
    ELSE data[offset + 1] + 256 * LittleEndian(data, offset + 1, w - 1)

NewParse ==
    [offset |-> 0, rc |-> "RUNNING", set |-> [c \in 1..NumColumns |-> FALSE],
     i |-> 0, reads |-> <<>>, marks |-> <<>>]

Stop(P, rc) == [P EXCEPT !.rc = rc]
ReadBytes(P, w) == [P EXCEPT !.reads = Append(@, [at |-> P.offset, w |-> w])]
Advance(P, w) == [P EXCEPT !.offset = @ + w]

\* sizeof of the value of a column of fixed width
ValueWidth(type) ==
    IF type \in {"Bool", "Byte", "UByte"} THEN 1
    ELSE IF type \in {"Short", "UShort"} THEN 2
    ELSE IF type \in {"Int", "UInt", "Float"} THEN 4
    ELSE 8

\* the value of column c, w bytes at the cursor, is stored in its field
\* unless the column is ignored or the value is a text that is no date
StoreBytes(P, data, type, c, w, isIgnored) ==
    IF isIgnored THEN P
    ELSE IF type = "DateTime"
    THEN [ReadBytes(P, w) EXCEPT
             !.set[c] = ParseDateTime(IF w = 0 THEN 0 ELSE data[P.offset + 1])]
    ELSE [ReadBytes(P, w) EXCEPT !.set[c] = TRUE]

\* a decode that would leave the cursor before the value of an ignored
\* column: the variant C27 is checked against
TakeValueSkipsIgnored(P, data, type, c, w, isIgnored) ==
    IF isIgnored THEN P
    ELSE Advance(StoreBytes(P, data, type, c, w, isIgnored), w)

\* the value is stored and the cursor moves past it, ignored or not
TakeValue(P, data, type, c, w, isIgnored) ==
    Advance(StoreBytes(P, data, type, c, w, isIgnored), w)

\* lines 1368-1381, 1392-1412, 1423-1437: the value of len bytes after its
\* length
VarValue(P, data, type, c, len, isIgnored) ==
    IF len > Len(data) - P.offset \/ (type = "DateTime" /\ len > 32)
    THEN Stop(P, "InvalidSize")
    ELSE TakeValue(P, data, type, c, len, isIgnored)

\* lines 1223-1439: the switch on the column type
ByteValue(P, data, type, c, isIgnored) ==
    IF type \in {"String", "Json", "DateTime", "Binary"}
    THEN IF P.offset + 4 > Len(data) THEN Stop(P, "InvalidSize")
         ELSE VarValue(Advance(ReadBytes(P, 4), 4), data, type, c,
                       LittleEndian(data, P.offset, 4), isIgnored)
    ELSE IF P.offset + ValueWidth(type) > Len(data) THEN Stop(P, "InvalidSize")
    ELSE TakeValue(P, data, type, c, ValueWidth(type), isIgnored)

\* lines 1189-1440: the loop; parseTuple is one pass after the read of the
\* column index i
RECURSIVE parseBytes(_, _, _, _)
parseTuple(cols, ignored, data, P) ==
    IF P.i >= Len(cols) THEN Stop(P, "CORRUPT_DATA")
    ELSE IF P.set[P.i + 1] THEN Stop(P, "CORRUPT_DATA")
    ELSE parseBytes(cols, ignored, data,
                    ByteValue(P, data, cols[P.i + 1], P.i + 1, ignored[P.i + 1]))

parseBytes(cols, ignored, data, P) ==
    IF P.rc # "RUNNING" THEN P
    ELSE IF ~(P.offset + 1 < Len(data)) THEN Stop(P, "NONE")
    ELSE IF P.offset + 2 > Len(data) THEN Stop(P, "InvalidSize")
    ELSE parseTuple(cols, ignored, data,
             [Advance(ReadBytes(P, 2), 2) EXCEPT
                 !.i = LittleEndian(data, P.offset, 2),
                 !.marks = Append(@, P.offset)])

\* lines 1174-1443: the properties of a record
parsePropertyBytes(cols, ignored, data) ==
    IF Len(data) > 0 /\ Len(data) < 3 THEN Stop(NewParse, "InvalidSize")
    ELSE parseBytes(cols, ignored, data, NewParse)

CursorInit ==
    /\ \E cols \in [1..NumColumns -> ByteColumnTypes],
          ignored \in [1..NumColumns -> BOOLEAN] :
          dec = [cols |-> cols, ignored |-> ignored, op |-> "Open",
                 data |-> <<>>, P |-> NewParse]
    /\ layer = Idle /\ fs = Idle /\ wlast = Idle
    /\ rd = Idle /\ rlast = Idle /\ iter = Idle
    /\ curve = Idle /\ clast = Idle /\ geo = Idle /\ pair = Idle /\ batch = Idle

\* parseFeature on the record of the file, whose property stream is data
DoParsePropertyBytes ==
    /\ dec.op = "Open"
    /\ \E data \in ByteStreams :
        dec' = [dec EXCEPT !.op = "parseFeature", !.data = data,
                           !.P = parsePropertyBytes(dec.cols, dec.ignored, data)]

CursorNext ==
    DoParsePropertyBytes /\ UNCHANGED <<wvars, rvars, cvars, gvars, pvars, bvars>>

SpecCursor == CursorInit /\ [][CursorNext]_vars

IsPrefix(s, t) == Len(s) <= Len(t) /\ SubSeq(t, 1, Len(s)) = s

\* the decode of the stream of dec with no column ignored
NoneIgnored ==
    parsePropertyBytes(dec.cols, [c \in 1..NumColumns |-> FALSE], dec.data)

\* C27: in a decode of a property stream the cursor never passes the end
\* of the stream and every read lies within the stream; a column index
\* that is no column of the header gives OGRERR_CORRUPT_DATA; the tuples
\* start where they start when no column is ignored; the cursor grows
\* with each tuple, and a decode that succeeds ends with fewer than 2
\* bytes left.
C27_CursorInBounds ==
    dec.op = "parseFeature"
    => /\ dec.P.rc # "RUNNING"
       /\ dec.P.offset <= Len(dec.data)
       /\ \A r \in 1..Len(dec.P.reads) :
             dec.P.reads[r].at + dec.P.reads[r].w <= Len(dec.data)
       /\ dec.P.i >= Len(dec.cols) => dec.P.rc = "CORRUPT_DATA"
       /\ IsPrefix(NoneIgnored.marks, dec.P.marks)
       /\ NoneIgnored.rc = "NONE"
             => dec.P.rc = "NONE" /\ dec.P.offset = NoneIgnored.offset
       /\ \A k \in 1..Len(dec.P.marks) - 1 : dec.P.marks[k] < dec.P.marks[k + 1]
       /\ dec.P.marks # <<>> => dec.P.marks[Len(dec.P.marks)] < dec.P.offset
       /\ dec.P.rc = "NONE" => Len(dec.data) - dec.P.offset < 2

\* a decode of two tuples, the first of an ignored column, that succeeds
\* with one byte left
C27_Witness ==
    /\ dec.op = "parseFeature" /\ dec.P.rc = "NONE"
    /\ Len(dec.P.marks) = 2
    /\ dec.ignored[LittleEndian(dec.data, 0, 2) + 1]
    /\ Len(dec.data) - dec.P.offset = 1

\* a decode that stopped at a column index beyond the columns
C27_WitnessIndex ==
    /\ dec.op = "parseFeature" /\ dec.P.i >= Len(dec.cols)
    /\ Len(dec.P.marks) = 2

(***************************************************************************)
(* importFromWkb on buffers of any content.                                *)
(*                                                                         *)
(* A buffer is a sequence of cells: the byte order (1 byte), the type and  *)
(* the point count (4 bytes each), then coordinates (8 bytes each); a      *)
(* buffer of fewer than 3 cells is one that ends within the preamble.      *)
(***************************************************************************)
MaxWkbCells == 8        \* coordinate cells of a buffer
MaxImports  == 2        \* importFromWkb calls on a curve

\* the point counts a buffer declares: negative, none, some, more than any
\* curve holds
WkbCounts == {-1, 0, 1, 2, MaxPointCount + 1}

\* the type codes of a buffer: LineString, LineString Z, LineString ZM, Point
WkbTypes == {wkbLineString, wkbLineString + 1000, wkbLineString + 3000, 1}

\* the number of bytes of a buffer
WkbBytes(pabyData) ==
    IF Len(pabyData) >= 3 THEN 9 + 8 * (Len(pabyData) - 3)
    ELSE IF Len(pabyData) = 2 THEN 5
    ELSE Len(pabyData)

WkbBuffer(eByteOrder, code, n, cells) ==
    << Cell(1, IF eByteOrder = "wkbNDR" THEN 1 ELSE 0, FALSE),
       Cell(4, code, OGR_SWAP(eByteOrder)),
       Cell(4, n, OGR_SWAP(eByteOrder)) >>
    \o [k \in 1..cells |->
           IF OGR_SWAP(eByteOrder) THEN SwapCell(DoubleBits(k)) ELSE DoubleBits(k)]

WkbBuffers ==
    { WkbBuffer(o, code, n, cells) :
        o \in {"wkbXDR", "wkbNDR"}, code \in WkbTypes, n \in WkbCounts,
        cells \in 0..MaxWkbCells }
    \cup { SubSeq(WkbBuffer(o, wkbLineString, 1, 0), 1, len) :
              o \in {"wkbXDR", "wkbNDR"}, len \in 1..2 }

\* lines 1684-1712: the cells of the buffer that the copy of the
\* coordinates of the curve reads
ImportReads(C) ==
    { 3 + (k - 1) * CoordinateDimension(C) + j :
        k \in 1..C.nPointCount, j \in 1..CoordinateDimension(C) }

DoImportFromWkb ==
    /\ clast.ops < MaxImports
    /\ \E pabyData \in WkbBuffers, al \in Allocs({"xy", "z"}) :
         /\ al.fail # "none"
               => importFromWkb(curve, pabyData, al).err = "OGRERR_NOT_ENOUGH_MEMORY"
         /\ CCommit(importFromWkb(curve, pabyData, al).C, "importFromWkb",
                    [pabyData |-> pabyData, nofail |-> NoFail(al)],
                    importFromWkb(curve, pabyData, al), al)

ImportNext ==
    DoImportFromWkb /\ UNCHANGED <<wvars, rvars, dvars, gvars, pvars, bvars>>

SpecImport == CurveInit /\ [][ImportNext]_vars

\* the point count and the dimension that the buffer of the last import
\* declares
DeclaredCount == ReadInt32(clast.args.pabyData[3], BufferByteOrder(clast.args.pabyData))

DeclaredDimension ==
    2 + (IF TypeHasZ(ReadInt32(clast.args.pabyData[2],
                               BufferByteOrder(clast.args.pabyData))) THEN 1 ELSE 0)
      + (IF TypeHasM(ReadInt32(clast.args.pabyData[2],
                               BufferByteOrder(clast.args.pabyData))) THEN 1 ELSE 0)

\* the preamble of the buffer of the last import was accepted
PreambleAccepted ==
    importPreambleOfCollectionFromWkb(clast.pre, clast.args.pabyData,
                                      [fail |-> "none", junk |-> 0]).err = "OGRERR_NONE"

C28_WitnessShort ==
    /\ clast.op = "importFromWkb" /\ clast.res.err = "OGRERR_NOT_ENOUGH_DATA"
    /\ PreambleAccepted
    /\ 9 + DeclaredCount * 8 * DeclaredDimension = WkbBytes(clast.args.pabyData) + 8

\* C30: after a transform with partial reprojection enabled that succeeds on
\* a curve with M, the M array holds a value for every vertex of the curve
\* and vertex k has the M of the vertex of the curve before that its X, Y
\* and Z stem from.
C30_SurvivorsKeepM ==
    ( /\ clast.op = "transform" /\ clast.args.nofail
      /\ clast.args.cfg = "YES" /\ clast.res.err = "OGRERR_NONE"
      /\ clast.pre.flags.m )
    => /\ curve.flags.m /\ curve.padfM.alloc
       /\ Len(curve.padfM.a) >= curve.nPointCount
       /\ curve.nPointCount = Successes(clast.args.pabSuccess)
       /\ \A k \in 0..(curve.nPointCount - 1) :
             getM(curve, k) = getM(clast.pre, Origin(k))

\* the first three parts of C30 alone
MArrayHoldsSurvivors ==
    ( /\ clast.op = "transform" /\ clast.args.nofail
      /\ clast.args.cfg = "YES" /\ clast.res.err = "OGRERR_NONE"
      /\ clast.pre.flags.m )
    => /\ curve.flags.m /\ curve.padfM.alloc
       /\ Len(curve.padfM.a) >= curve.nPointCount
       /\ curve.nPointCount = Successes(clast.args.pabSuccess)

(***************************************************************************)
(* The Z and M of the points segmentize inserts.  geo.pre is the curve the *)
(* caller gave, in units of 1 / geo.res.den; geo.C is the result, in units *)
(* of 1 / geo.den.                                                         *)
(***************************************************************************)
\* the index in the result of original vertex i of the curve given
PlaceOf(i) == nNewPointCount(geo.pre, geo.res.den, geo.args.dfMaxLength, i)

\* the original vertices are in the result at their places, in their order,
\* with their X, Y (in the unit of the result), Z and M, and nothing follows
\* the last of them
OriginalsKept ==
    /\ geo.C.nPointCount = PlaceOf(geo.pre.nPointCount - 1) + 1
    /\ \A i \in 0..(geo.pre.nPointCount - 1) :
         /\ getXY(geo.C, PlaceOf(i))[1] * geo.res.den = getXY(geo.pre, i)[1] * geo.den
         /\ getXY(geo.C, PlaceOf(i))[2] * geo.res.den = getXY(geo.pre, i)[2] * geo.den
         /\ getZ(geo.C, PlaceOf(i)) = getZ(geo.pre, i)
         /\ getM(geo.C, PlaceOf(i)) = getM(geo.pre, i)

\* the points of the result strictly between original vertices i and i + 1
\* carry the Z and M of original vertex i + from
InsertedCarry(from) ==
    \A i \in 0..(geo.pre.nPointCount - 2) :
        \A k \in (PlaceOf(i) + 1)..(PlaceOf(i + 1) - 1) :
            /\ getZ(geo.C, k) = getZ(geo.pre, i + from)
            /\ getM(geo.C, k) = getM(geo.pre, i + from)

\* segmentize, lines 2645-2653: the first vertex is before the last in
\* (x, then y), the curve is reversed before and after the passes
ReversedFirst(C) ==
    \/ getXY(C, 0)[1] < getXY(C, C.nPointCount - 1)[1]
    \/ /\ getXY(C, 0)[1] = getXY(C, C.nPointCount - 1)[1]
       /\ getXY(C, 0)[2] < getXY(C, C.nPointCount - 1)[2]

C29_WitnessForward ==
    /\ geo.op = "segmentize" /\ geo.res.ok /\ geo.pre.nPointCount >= 2
    /\ geo.pre.flags.m
    /\ ~ReversedFirst(geo.pre)
    /\ geo.C.nPointCount > geo.pre.nPointCount

=============================================================================
